---------------------------- MODULE Spec2Model ----------------------------
(***************************************************************************)
(* The manifest build-and-cache pipeline of AppHolly: the orchestrator of  *)
(* app/generate_all_manifest.py with the stages it calls (DownloadText,    *)
(* add_prayers_to_manifest, enrich_manifest_with_gemini, generate_tts).    *)
(*                                                                         *)
(* Specifications.  Spec: runs of the orchestrator.  SpecAudio: runs of    *)
(* generate_tts.py on its own, the environment changing between them.      *)
(* SpecWorkers: two processes of generate_tts.py at the same time, with    *)
(* write_wav in two steps.  SpecRetry, SpecRetryLive: one call of          *)
(* gemini_tts_request_with_retry.  SpecFunctions: functions called on      *)
(* their own: compute_audio_hash and add_closing_phrase on texts spelled   *)
(* out character by character, the two upserts and build_manifest on      *)
(* manifests, extract_sections on pages spelled out marker by marker.      *)
(*                                                                         *)
(* Conventions.  Python's None is the empty sequence <<>> and a present    *)
(* value v is <<v>> (manifest file of a date, audio reference of a         *)
(* section).  sha256 is taken to be free of collisions: a digest is the    *)
(* value that was digested.  The texts of the manifests are tokens; " "    *)
(* is a text of white space only.  Where a function looks at characters,   *)
(* a text is the sequence of its characters and a token is one of them.    *)
(* The files of the audio store are records naming their path components   *)
(* and their bytes; the bytes of a synthesized file are the inputs of the  *)
(* synthesis call.                                                         *)
(***************************************************************************)
EXTENDS Integers, Sequences, FiniteSets, TLC

\* ------------------------------------------------------------------ bounds
\* Days the manifests directory can hold a manifest for: 1..MaxDay.
MaxDay == 2
\* Orchestrator runs in one behaviour.
MaxRuns == 2
\* Failures of a collaborator (fetch, templates, Gemini, synthesis) in one behaviour.
MaxFailures == 1
\* Audio files removed from storage between runs in one behaviour.
MaxDeletes == 2
\* Sections of a manifest handed to an upsert called on its own.
MaxSections == 3
\* Characters of white space between two words of a text handed to normalize_text.
MaxWhite == 3

\* -------------------------------------------------------- program constants
ORDER ==
    << "welcome", "first_reading", "psalm", "second_reading", "gospel", "homily",
       "confiteor", "creed", "lords_prayer", "final_reflection", "closing" >>

VARIABLE_GEMINI_IDS == {"welcome", "homily", "final_reflection", "closing"}

PRAYERS_IDS == {"confiteor", "creed", "lords_prayer"}

required_ids == << "confiteor", "creed", "lords_prayer" >>

GEMINI_TTS_MODEL == "gemini-2.5-flash-preview-tts"

GEMINI_MODEL == "gemini-2.5-flash"

VOICE_PRIEST == "Charon"

VOICE_LECTOR == "Kore"

STYLE_PROFILE_ID == "priest_es_co_v1"

LectorIds == {"first_reading", "psalm", "second_reading"}

\* VOICE_BY_SECTION.get(sec_id, "PRIEST")
VOICE_BY_SECTION(sec_id) == IF sec_id \in LectorIds THEN "LECTOR" ELSE "PRIEST"

\* What the module read from the environment when it was imported: the values of
\* GEMINI_TTS_MODEL, GEMINI_TTS_VOICE_PRIEST, GEMINI_TTS_VOICE_LECTOR and
\* TTS_STYLE_PROFILE_ID, here with their defaults.
DefaultEnv ==
    [ model |-> GEMINI_TTS_MODEL, voice_priest |-> VOICE_PRIEST,
      voice_lector |-> VOICE_LECTOR, style_profile_id |-> STYLE_PROFILE_ID ]

\* VOICE_PROFILES.get(role, VOICE_PROFILES["PRIEST"])["voice_name"]
VOICE_PROFILES(e, role) == IF role = "LECTOR" THEN e.voice_lector ELSE e.voice_priest

\* A text spelled out is the sequence of its characters.  A text token of the
\* manifests ("go", "fr") stands for a run of lower-case letters and is one character
\* of such a sequence.
PalabraDeDios ==
    << "P", "a", "l", "a", "b", "r", "a", " ", "d", "e", " ", "D", "i", "o", "s", "." >>

PalabraDelSenor ==
    << "P", "a", "l", "a", "b", "r", "a", " ", "d", "e", "l", " ", "S", "e", "n~", "o", "r",
       "." >>

\* CLOSING_PHRASE_BY_SECTION.get(sec_id): << >> for an id the dict does not hold.
CLOSING_PHRASE_BY_SECTION(sec_id) ==
    CASE sec_id \in {"first_reading", "second_reading", "psalm"} -> PalabraDeDios
      [] sec_id = "gospel" -> PalabraDelSenor
      [] OTHER -> << >>

\* ------------------------------------------------------------------- texts
BlankTexts == {"", " "}

\* str.strip() of a text token: white space only becomes the empty text.
strip(s) == IF s \in BlankTexts THEN "" ELSE s

\* normalize_text of the four modules on text tokens: strip, and collapse runs of
\* white space (a token other than " " holds none).
normalize_text(s) == strip(s)

sha256_hex(parts) == parts

SeqToSet(s) == {s[i] : i \in 1..Len(s)}

OrderSet == SeqToSet(ORDER)

\* ------------------------------------------------------- manifest documents
IdsOf(sections) == {sections[i].id : i \in 1..Len(sections)}

\* {s["id"]: s for s in sections}: the value of a key is its last occurrence.
LastIndex(sections, id) ==
    CHOOSE i \in 1..Len(sections) :
        /\ sections[i].id = id
        /\ \A j \in (i + 1)..Len(sections) : sections[j].id # id

DictGet(sections, id) == sections[LastIndex(sections, id)]

\* The keys of that dict in insertion order: first occurrences.
RECURSIVE DictKeys(_)
DictKeys(sections) ==
    IF sections = << >> THEN << >>
    ELSE LET n == Len(sections)
             front == SubSeq(sections, 1, n - 1)
             keys == DictKeys(front)
         IN IF sections[n].id \in IdsOf(front) THEN keys ELSE Append(keys, sections[n].id)

\* A source_url is a tuple of its parts: the pdf url of a date, "template:..." with the
\* template's id, or the tag of the Gemini producer.
section_obj(sec_id, sec_type, source_url, text) ==
    LET text_n == normalize_text(text)
    IN [ id |-> sec_id, type |-> sec_type, source_url |-> source_url, text |-> text_n,
         text_hash |-> sha256_hex(<< sec_id, sec_type, text_n >>), audio |-> << >> ]

ReadingType(sec_id) ==
    CASE sec_id = "psalm" -> "psalm"
      [] sec_id = "gospel" -> "gospel"
      [] OTHER -> "reading"

\* Mutant: extract_sections returns whatever the gospel slice is.
GospelExtracted_any(secs) == TRUE

\* extract_sections' validation of its result: the gospel slice must not be empty.
GospelExtracted(secs) == secs.gospel # ""

\* Mutant: a section is appended for every slice, empty or not.
RECURSIVE AppendReadings_all(_, _, _)
AppendReadings_all(ids, secs, url) ==
    IF ids = << >> THEN << >>
    ELSE << section_obj(Head(ids), ReadingType(Head(ids)), url, secs[Head(ids)]) >>
         \o AppendReadings_all(Tail(ids), secs, url)

RECURSIVE AppendReadings(_, _, _)
AppendReadings(ids, secs, url) ==
    IF ids = << >> THEN << >>
    ELSE LET id == Head(ids)
             rest == AppendReadings(Tail(ids), secs, url)
         IN IF id = "gospel" \/ secs[id] # ""
            THEN << section_obj(id, ReadingType(id), url, secs[id]) >> \o rest
            ELSE rest

build_manifest(iso_date, source_url, secs) ==
    [ date |-> iso_date,
      sections |-> AppendReadings(<< "first_reading", "psalm", "second_reading", "gospel" >>,
                                  secs, source_url),
      templates |-> << >>,
      generated_parts |-> << >>,
      audio_generation |-> << >> ]

\* Mutant: the rebuild keeps a second_reading whose text is blank.
RECURSIVE Reorder_keeping_blank(_, _)
Reorder_keeping_blank(order, sections) ==
    IF order = << >> THEN << >>
    ELSE LET sec_id == Head(order)
             rest == Reorder_keeping_blank(Tail(order), sections)
         IN IF sec_id \notin IdsOf(sections) THEN rest
            ELSE << DictGet(sections, sec_id) >> \o rest

\* The rebuild of the section list in canonical order, shared by both upserts:
\* an id absent from the dict is skipped, and so is a second_reading of blank text.
RECURSIVE Reorder(_, _)
Reorder(order, sections) ==
    IF order = << >> THEN << >>
    ELSE LET sec_id == Head(order)
             rest == Reorder(Tail(order), sections)
         IN IF sec_id \notin IdsOf(sections) THEN rest
            ELSE IF sec_id = "second_reading" /\ strip(DictGet(sections, sec_id).text) = ""
                 THEN rest
                 ELSE << DictGet(sections, sec_id) >> \o rest

RECURSIVE SectionsOfKeys(_, _)
SectionsOfKeys(keys, sections) ==
    IF keys = << >> THEN << >>
    ELSE << DictGet(sections, Head(keys)) >> \o SectionsOfKeys(Tail(keys), sections)

NotInOrder(id) == id \notin OrderSet

\* Mutant: the text_hash of a template section digests the template's text as it is.
template_to_manifest_section_raw_hash(id, tpl) ==
    LET text == normalize_text(tpl.text)
    IN [ id |-> id, type |-> tpl.type, source_url |-> << "template:catholic_prayer", id >>,
         text |-> text, text_hash |-> sha256_hex(<< id, tpl.type, tpl.text >>),
         audio |-> << >> ]

template_to_manifest_section(id, tpl) ==
    LET text == normalize_text(tpl.text)
    IN [ id |-> id, type |-> tpl.type, source_url |-> << "template:catholic_prayer", id >>,
         text |-> text, text_hash |-> sha256_hex(<< id, tpl.type, text >>), audio |-> << >> ]

RECURSIVE TemplateSections(_, _)
TemplateSections(ids, templates) ==
    IF ids = << >> THEN << >>
    ELSE << template_to_manifest_section(Head(ids), templates[Head(ids)]) >>
         \o TemplateSections(Tail(ids), templates)

\* The templates file holds every required id.
TemplatesComplete(templates) == \A i \in 1..Len(required_ids) : required_ids[i] \in DOMAIN templates

\* Mutant: the template sections are appended to the list, not upserted.
upsert_prayers_into_manifest_appending(manifest, templates) ==
    [manifest EXCEPT !.sections = @ \o TemplateSections(required_ids, templates),
                     !.templates = << required_ids >>]

\* Mutant: a template that is present is upserted before the missing one is noticed.
upsert_prayers_raising_late(manifest, templates) ==
    [manifest EXCEPT !.sections =
        @ \o TemplateSections(SelectSeq(required_ids, LAMBDA rid : rid \in DOMAIN templates),
                              templates)]

\* The manifest passed in when upsert_prayers_into_manifest raises KeyError for a
\* missing template: the check precedes every assignment.
upsert_prayers_raising(manifest, templates) == manifest

upsert_prayers_into_manifest(manifest, templates) ==
    LET existing == manifest.sections \o TemplateSections(required_ids, templates)
        new_sections == Reorder(ORDER, existing)
        extras == SectionsOfKeys(SelectSeq(DictKeys(existing), NotInOrder), existing)
    IN [manifest EXCEPT !.sections = new_sections \o extras,
                        !.templates = << required_ids >>]

section_to_manifest_shape(section, source_url) ==
    LET text == normalize_text(section.text)
    IN [ id |-> section.id, type |-> section.type, source_url |-> source_url, text |-> text,
         text_hash |-> sha256_hex(<< section.id, section.type, text >>), audio |-> << >> ]

RECURSIVE GeneratedSections(_)
GeneratedSections(generated) ==
    IF generated = << >> THEN << >>
    ELSE << section_to_manifest_shape(Head(generated), << "generated_by_gemini" >>) >>
         \o GeneratedSections(Tail(generated))

\* Mutant: the generated sections are appended, not upserted.
enrich_manifest_appending(manifest, generated_sections) ==
    [manifest EXCEPT !.sections = manifest.sections \o GeneratedSections(generated_sections),
                     !.generated_parts =
                         << [ model |-> GEMINI_MODEL,
                              included_ids |-> [i \in 1..Len(generated_sections) |->
                                                   generated_sections[i].id] ] >>]

\* Mutant: the generated sections are put in front of the list, not upserted.
enrich_manifest_prepending(manifest, generated_sections) ==
    [manifest EXCEPT !.sections = GeneratedSections(generated_sections) \o @,
                     !.generated_parts =
                         << [ model |-> GEMINI_MODEL,
                              included_ids |-> [i \in 1..Len(generated_sections) |->
                                                   generated_sections[i].id] ] >>]

\* Mutant: a generated section whose text_hash is that of the section it replaces
\* leaves that section, with its audio block, in place.
enrich_manifest_keeping_audio(manifest, generated_sections) ==
    LET fresh == GeneratedSections(generated_sections)
        old == manifest.sections
        kept == [i \in 1..Len(fresh) |->
                    IF /\ fresh[i].id \in IdsOf(old)
                       /\ DictGet(old, fresh[i].id).text_hash = fresh[i].text_hash
                    THEN DictGet(old, fresh[i].id)
                    ELSE fresh[i]]
    IN [manifest EXCEPT !.sections = Reorder(ORDER, old \o kept),
                        !.generated_parts =
                            << [ model |-> GEMINI_MODEL,
                                 included_ids |-> [i \in 1..Len(generated_sections) |->
                                                      generated_sections[i].id] ] >>]

enrich_manifest(manifest, generated_sections) ==
    LET existing == manifest.sections \o GeneratedSections(generated_sections)
    IN [manifest EXCEPT !.sections = Reorder(ORDER, existing),
                        !.generated_parts =
                            << [ model |-> GEMINI_MODEL,
                                 included_ids |-> [i \in 1..Len(generated_sections) |->
                                                      generated_sections[i].id] ] >>]

\* gemini_generate_liturgy_parts accepts a reply that is a non-empty list whose
\* sections have no blank field.
ReplyValid(reply) ==
    /\ reply # << >>
    /\ \A i \in 1..Len(reply) :
          strip(reply[i].id) # "" /\ strip(reply[i].type) # "" /\ strip(reply[i].text) # ""

\* --------------------------------------------------------------- audio stage
WhiteSpace == {" ", "\n", "\t", "\r"}

\* Letters, and the markers of extract_sections as a page prints them: a marker counts
\* as one character of a text, written without its accents.
UpperCase ==
    << "A", "B", "D", "E", "I", "L", "N~", "O", "P", "R", "S", "Primera lectura",
       "Salmo de hoy", "Evangelio del dia", "Lectura del santo evangelio" >>

LowerCase ==
    << "a", "b", "d", "e", "i", "l", "n~", "o", "p", "r", "s", "primera lectura",
       "salmo de hoy", "evangelio del dia", "lectura del santo evangelio" >>

\* str.lower() on the characters of the model.
lower_char(c) ==
    IF \E i \in 1..Len(UpperCase) : UpperCase[i] = c
    THEN LowerCase[CHOOSE i \in 1..Len(UpperCase) : UpperCase[i] = c]
    ELSE c

lower(s) == [i \in 1..Len(s) |-> lower_char(s[i])]

\* str.rstrip(chars): the trailing characters of the set are removed.
RECURSIVE rstrip(_, _)
rstrip(s, chars) ==
    IF s # << >> /\ s[Len(s)] \in chars THEN rstrip(SubSeq(s, 1, Len(s) - 1), chars) ELSE s

endswith(s, suffix) ==
    /\ Len(suffix) <= Len(s)
    /\ SubSeq(s, Len(s) - Len(suffix) + 1, Len(s)) = suffix

\* Mutant: the phrase is appended without looking at the end of the text.
add_closing_phrase_always(sec_id, text) ==
    IF CLOSING_PHRASE_BY_SECTION(sec_id) = << >> THEN text
    ELSE rstrip(text, WhiteSpace) \o << "\n", "\n" >> \o CLOSING_PHRASE_BY_SECTION(sec_id)

add_closing_phrase(sec_id, text) ==
    LET phrase == CLOSING_PHRASE_BY_SECTION(sec_id)
        t == rstrip(text, WhiteSpace)
        t_low == rstrip(lower(t), {"."})
        p_low == rstrip(lower(phrase), {"."})
    IN IF phrase = << >> THEN text
       ELSE IF endswith(t_low, p_low) THEN text
       ELSE t \o << "\n", "\n" >> \o phrase

\* f"{text_hash}|{model}|{voice_name}|{style_profile_id}", digested.  The four
\* arguments are sequences of characters; a value the pipeline never takes apart (a
\* digest, a default model or voice name) is a sequence of one character.
compute_audio_hash(text_hash, model, voice_name, style_profile_id) ==
    sha256_hex(text_hash \o << "|" >> \o model \o << "|" >> \o voice_name \o << "|" >>
               \o style_profile_id)

\* assets_dir / "cache" / style_profile_id / voice_name / "<audio_hash>.wav"
CachePath(style_profile_id, voice_name, audio_hash) ==
    [ style |-> style_profile_id, voice |-> voice_name, hash |-> audio_hash ]

\* assets_dir / "by-date" / date_str / "<sec_id>.wav"
DailyPath(date_str, sec_id) == [ date |-> date_str, sec |-> sec_id ]

Exists(store, path) == \E f \in store : f.path = path

BytesAt(store, path) == (CHOOSE f \in store : f.path = path).bytes

\* The PCM payload the synthesis collaborator returns for a request.
gemini_tts_request(tts_text, model, voice_name) == << tts_text, model, voice_name >>

\* write_wav: the file at path holds the payload afterwards.
write_wav(store, path, pcm) ==
    {f \in store : f.path # path} \cup {[ path |-> path, bytes |-> pcm ]}

\* link_audio_to_date: copies the cache file to the by-date path unless a file is there.
link_audio_to_date(dailyStore, cacheStore, cache_path, date_str, sec_id) ==
    IF Exists(dailyStore, DailyPath(date_str, sec_id)) THEN dailyStore
    ELSE dailyStore \cup {[ path |-> DailyPath(date_str, sec_id),
                            bytes |-> BytesAt(cacheStore, cache_path) ]}

HasAudio(s) == s.audio # << >>

all_sections_have_audio(manifest, dailyStore) ==
    \A i \in 1..Len(manifest.sections) :
        LET s == manifest.sections[i]
        IN strip(s.text) = "" \/ (HasAudio(s) /\ Exists(dailyStore, s.audio[1].path))

has_sections(manifest, ids) == ids \subseteq IdsOf(manifest.sections)

\* Mutant: every audio reference is cleared, whether its file exists or not.
clear_missing_audio_entries_all(manifest, dailyStore) ==
    [manifest EXCEPT !.sections =
        [i \in 1..Len(manifest.sections) |-> [manifest.sections[i] EXCEPT !.audio = << >>]]]

\* Mutant: nothing is cleared.
clear_missing_audio_entries_none(manifest, dailyStore) == manifest

clear_missing_audio_entries(manifest, dailyStore) ==
    [manifest EXCEPT !.sections =
        [i \in 1..Len(manifest.sections) |->
            LET s == manifest.sections[i]
            IN IF HasAudio(s) /\ ~Exists(dailyStore, s.audio[1].path)
               THEN [s EXCEPT !.audio = << >>]
               ELSE s]]

\* The audio block generate_tts_for_manifest writes into a section.
AudioRef(e, sec, date_str, now) ==
    LET role == VOICE_BY_SECTION(sec.id)
        voice_name == VOICE_PROFILES(e, role)
        audio_hash == compute_audio_hash(<< sec.text_hash >>, << e.model >>, << voice_name >>,
                                         << e.style_profile_id >>)
    IN [ provider |-> "gemini-tts", model |-> e.model, voice_name |-> voice_name,
         role |-> role, style_profile_id |-> e.style_profile_id, audio_hash |-> audio_hash,
         path |-> DailyPath(date_str, sec.id),
         cache_path |-> CachePath(e.style_profile_id, voice_name, audio_hash),
         generated_at |-> now ]

\* A section generate_tts_for_manifest passes over: no text, or no text_hash.
TtsSkips(sec) == normalize_text(sec.text) = "" \/ sec.text_hash = << >>

\* ------------------------------------------------------------------- state
VARIABLES
    today,         \* the date of the run: date.today(), a day of Days
    files,         \* data/manifests: day -> << >> (no file) or << manifest >>
    daily,         \* the files under assets/by-date
    cache,         \* the files under assets/cache
    pc,            \* where main() stands
    run,           \* the number of the current run; also the clock of utc_now_iso()
    outcome,       \* for each stage of the current run: none, skipped, ran, failed
    error,         \* what the current run raised ("" while none)
    gpath,         \* the day whose manifest gemini_generate_main loaded (0: not called)
    calls,         \* calls of this run to the collaborators, and cache files written
    failures,      \* collaborator failures so far
    deletes,       \* audio files removed so far
    gemini_reply,  \* the sections the text-generation collaborator returns
    mem,           \* generate_tts_for_manifest's locals: << >> or << [manifest, i, ...] >>
    startFile,     \* today's manifest file when the current stage started
    dangling,      \* ids whose audio path named no file when ensure_tts loaded the manifest
    prev,          \* today's manifest file after the previous run, if that run returned
                   \* and storage was left alone since; << >> otherwise
    tampered,      \* an audio file was removed since the last run ended
    satisfied,     \* the four readiness predicates held when the current run started
    retry,         \* the locals of one gemini_tts_request_with_retry call
    env,           \* the environment the process was started with
    call           \* one call of a function under study: its arguments and its result

vars == << today, files, daily, cache, pc, run, outcome, error, gpath, calls, failures,
           deletes, gemini_reply, mem, startFile, dangling, prev, tampered, satisfied, retry,
           env, call >>

\* Every variable but retry.
pipelineVars == << today, files, daily, cache, pc, run, outcome, error, gpath, calls,
                   failures, deletes, gemini_reply, mem, startFile, dangling, prev,
                   tampered, satisfied, env, call >>

Days == 1..MaxDay

Stages == << "dominicos", "prayers", "gemini", "tts" >>

StageSet == SeqToSet(Stages)

\* ------------------------------------------------------------------ inputs
\* What the fetch and the marker search give: the pdf cannot be downloaded, or the
\* four slices of extract_sections.
Sources ==
    { [ reachable |-> FALSE, first_reading |-> "", psalm |-> "", second_reading |-> "",
        gospel |-> "" ],
      [ reachable |-> TRUE, first_reading |-> "fr", psalm |-> "", second_reading |-> "",
        gospel |-> "" ],
      [ reachable |-> TRUE, first_reading |-> "", psalm |-> "", second_reading |-> "",
        gospel |-> "go" ],
      [ reachable |-> TRUE, first_reading |-> "fr", psalm |-> "", second_reading |-> "",
        gospel |-> "go" ] }

Prayer(text) == [ type |-> "prayer", text |-> text ]

\* The contents of prayers_es.json: complete, complete with a creed of white space
\* only, and without the creed.
TemplateFiles ==
    { [ id \in PRAYERS_IDS |-> Prayer(id) ],
      [ id \in PRAYERS_IDS |-> IF id = "creed" THEN Prayer(" ") ELSE Prayer(id) ],
      [ id \in PRAYERS_IDS \ {"creed"} |-> Prayer(id) ] }

Speech(id, text) ==
    [ id |-> id, type |-> IF id = "homily" THEN "homily" ELSE "speech", text |-> text ]

\* The replies of the text-generation collaborator: the four sections, three of
\* them, and four with one blank text.
Replies ==
    { << Speech("welcome", "w"), Speech("homily", "h"), Speech("final_reflection", "f"),
         Speech("closing", "c") >>,
      << Speech("welcome", "w"), Speech("homily", "h"), Speech("closing", "c") >>,
      << Speech("welcome", "w"), Speech("homily", " "), Speech("final_reflection", "f"),
         Speech("closing", "c") >> }

PdfUrl(day) == << "dominicos.org", day >>

\* The base manifest an earlier run built for a day.
BaseManifest(day) ==
    build_manifest(day, PdfUrl(day),
                   [ reachable |-> TRUE, first_reading |-> "", psalm |-> "",
                     second_reading |-> "", gospel |-> "go" ])

\* A manifest file from outside the pipeline: a reading with text and no text_hash.
HashlessManifest(day) ==
    LET m == build_manifest(day, PdfUrl(day),
                            [ reachable |-> TRUE, first_reading |-> "fr", psalm |-> "",
                              second_reading |-> "", gospel |-> "go" ])
    IN [m EXCEPT !.sections[1].text_hash = << >>]

\* Sections whose audio files may be removed from storage between runs.
DeletableIds == {"gospel", "creed"}

NoCalls == [ fetch |-> 0, gemini |-> 0, tts |-> 0, cache |-> 0 ]

NoOutcome == [ st \in StageSet |-> "none" ]

NoCall == [ fn |-> "" ]

RetryIdle ==
    [ max_retries |-> 0, attempt |-> 0, delay |-> 0, waits |-> << >>, status |-> "idle" ]

\* ------------------------------------------------------------ orchestrator
\* Mutant: main calls ensure_gemini_sections before ensure_prayers.
NextStage_swapped(stage) ==
    CASE stage = "dominicos" -> "gemini"
      [] stage = "gemini" -> "prayers"
      [] stage = "prayers" -> "tts"
      [] stage = "tts" -> "done"

\* main(): the stage main calls once the given stage has returned.
NextStage(stage) ==
    CASE stage = "dominicos" -> "prayers"
      [] stage = "prayers" -> "gemini"
      [] stage = "gemini" -> "tts"
      [] stage = "tts" -> "done"

\* files = sorted(manifests_dir.glob("manifest-*.json"), reverse=True); files[0]
LatestManifestDay(fs) ==
    CHOOSE d \in Days : fs[d] # << >> /\ \A e \in Days : fs[e] # << >> => e <= d

\* The manifest path gemini_generate_main loads and saves.
GeminiManifestDay(fs, day) == LatestManifestDay(fs)

\* The four readiness predicates of the orchestrator on the persisted state.
Satisfied(fs, day, dailyStore) ==
    /\ fs[day] # << >>
    /\ has_sections(fs[day][1], PRAYERS_IDS)
    /\ has_sections(fs[day][1], VARIABLE_GEMINI_IDS)
    /\ all_sections_have_audio(fs[day][1], dailyStore)

DanglingIds(manifest, dailyStore) ==
    { manifest.sections[i].id : i \in
        { j \in 1..Len(manifest.sections) :
            /\ HasAudio(manifest.sections[j])
            /\ ~Exists(dailyStore, manifest.sections[j].audio[1].path) } }

Init ==
    /\ today \in Days
    /\ files \in { f \in [Days -> {<< >>} \cup {<< BaseManifest(d) >> : d \in Days}
                                         \cup {<< HashlessManifest(d) >> : d \in Days}] :
                      \A d \in Days :
                          /\ f[d] # << >> => f[d][1].date = d
                          /\ d # today => f[d] \in {<< >>, << BaseManifest(d) >>}
                          /\ d = today => f[d] \in {<< >>, << HashlessManifest(d) >>} }
    /\ daily = {}
    /\ cache = {}
    /\ pc = "idle"
    /\ run = 0
    /\ outcome = NoOutcome
    /\ error = ""
    /\ gpath = 0
    /\ calls = NoCalls
    /\ failures = 0
    /\ deletes = 0
    /\ gemini_reply \in Replies
    /\ mem = << >>
    /\ startFile = << >>
    /\ dangling = {}
    /\ prev = << >>
    /\ tampered = FALSE
    /\ satisfied = FALSE
    /\ retry = RetryIdle
    /\ env = DefaultEnv
    /\ call = NoCall

\* asyncio.run(main()): a run starts; the clock advances.
StartRun ==
    /\ pc \in {"idle", "done", "failed"}
    /\ run < MaxRuns
    /\ run' = run + 1
    /\ pc' = "dominicos"
    /\ outcome' = NoOutcome
    /\ error' = ""
    /\ gpath' = 0
    /\ calls' = NoCalls
    /\ mem' = << >>
    /\ startFile' = files[today]
    /\ dangling' = {}
    /\ prev' = IF pc = "done" /\ ~tampered THEN files[today] ELSE << >>
    /\ tampered' = FALSE
    /\ satisfied' = Satisfied(files, today, daily)
    /\ UNCHANGED << today, files, daily, cache, failures, deletes, gemini_reply, retry, env,
                    call >>

\* A stage returned (ran or skipped) having left the manifests as fs.
Returns(stage, how, fs) ==
    /\ outcome' = [outcome EXCEPT ![stage] = how]
    /\ pc' = NextStage(stage)
    /\ files' = fs
    /\ startFile' = fs[today]
    /\ error' = ""

\* A stage raised: main() ends with that error.
Raises(stage, what, fs) ==
    /\ outcome' = [outcome EXCEPT ![stage] = "failed"]
    /\ pc' = "failed"
    /\ files' = fs
    /\ startFile' = startFile
    /\ error' = what

\* What generate_manifest_from_dominicos raises on src, "" when it returns.
DominicosError(src) ==
    IF ~src.reachable THEN "fetch"
    ELSE IF ~GospelExtracted(src) THEN "gospel"
    ELSE ""

\* Mutant: the manifest is saved before the gospel is validated.
generate_manifest_from_dominicos_unvalidated(fs, day, src) ==
    IF ~src.reachable THEN fs
    ELSE [fs EXCEPT ![day] = << build_manifest(day, PdfUrl(day), src) >>]

\* generate_manifest_from_dominicos on what the fetch gave: the manifests after it.
\* save_manifest is its last step, reached when nothing was raised.
generate_manifest_from_dominicos(fs, day, src) ==
    IF DominicosError(src) # "" THEN fs
    ELSE [fs EXCEPT ![day] = << build_manifest(day, PdfUrl(day), src) >>]

\* Mutant: the base manifest is rebuilt on every run.
DominicosSkips_never(fs, day) == FALSE

\* Mutant: the stage is skipped only if the file already holds the prayers.
DominicosSkips_if_complete(fs, day) ==
    fs[day] # << >> /\ has_sections(fs[day][1], PRAYERS_IDS)

\* The guard of ensure_dominicos_manifest: the stage is skipped.
DominicosSkips(fs, day) == fs[day] # << >>

EnsureDominicos ==
    /\ pc = "dominicos"
    /\ IF DominicosSkips(files, today)
       THEN /\ Returns("dominicos", "skipped", files)
            /\ UNCHANGED << calls, failures >>
       ELSE /\ calls' = [calls EXCEPT !.fetch = @ + 1]
            /\ \E src \in Sources :
                  IF DominicosError(src) # ""
                  THEN /\ failures < MaxFailures
                       /\ failures' = failures + 1
                       /\ Raises("dominicos", DominicosError(src),
                                 generate_manifest_from_dominicos(files, today, src))
                  ELSE /\ Returns("dominicos", "ran",
                                  generate_manifest_from_dominicos(files, today, src))
                       /\ UNCHANGED failures
    /\ UNCHANGED << today, daily, cache, run, gpath, deletes, gemini_reply, mem, dangling,
                    prev, tampered, satisfied, retry, env, call >>

\* add_prayers_to_manifest(): the manifests after it, given complete templates.
add_prayers_to_manifest(fs, day, templates) ==
    [fs EXCEPT ![day] = << upsert_prayers_into_manifest(fs[day][1], templates) >>]

EnsurePrayers ==
    /\ pc = "prayers"
    /\ IF has_sections(files[today][1], PRAYERS_IDS)
       THEN /\ Returns("prayers", "skipped", files)
            /\ UNCHANGED failures
       ELSE \E templates \in TemplateFiles :
               IF ~TemplatesComplete(templates)
               THEN /\ failures < MaxFailures
                    /\ failures' = failures + 1
                    /\ Raises("prayers", "templates", files)
               ELSE /\ Returns("prayers", "ran", add_prayers_to_manifest(files, today, templates))
                    /\ UNCHANGED failures
    /\ UNCHANGED << today, daily, cache, run, gpath, calls, deletes, gemini_reply, mem,
                    dangling, prev, tampered, satisfied, retry, env, call >>

\* readings["gospel"] of gemini_generate_main: the text of the last gospel section.
GospelText(manifest) ==
    IF "gospel" \in IdsOf(manifest.sections) THEN DictGet(manifest.sections, "gospel").text
    ELSE ""

\* gemini_generate_main(): the manifests after a valid reply was merged and saved.
gemini_generate_main(fs, day, reply) ==
    LET path == GeminiManifestDay(fs, day)
    IN [fs EXCEPT ![path] = << enrich_manifest(fs[path][1], reply) >>]

EnsureGemini ==
    /\ pc = "gemini"
    /\ IF has_sections(files[today][1], VARIABLE_GEMINI_IDS)
       THEN /\ Returns("gemini", "skipped", files)
            /\ UNCHANGED << failures, calls, gpath >>
       ELSE /\ gpath' = GeminiManifestDay(files, today)
            /\ IF strip(GospelText(files[GeminiManifestDay(files, today)][1])) = ""
               THEN /\ Raises("gemini", "no_gospel", files)
                    /\ UNCHANGED << failures, calls >>
               ELSE /\ calls' = [calls EXCEPT !.gemini = @ + 1]
                    /\ \/ /\ failures < MaxFailures
                          /\ failures' = failures + 1
                          /\ Raises("gemini", "gemini", files)
                       \/ /\ ~ReplyValid(gemini_reply)
                          /\ Raises("gemini", "reply", files)
                          /\ UNCHANGED failures
                       \/ /\ ReplyValid(gemini_reply)
                          /\ Returns("gemini", "ran",
                                     gemini_generate_main(files, today, gemini_reply))
                          /\ UNCHANGED failures
    /\ UNCHANGED << today, daily, cache, run, deletes, gemini_reply, mem, dangling, prev,
                    tampered, satisfied, retry, env, call >>

\* ensure_tts, first part: load, clear_missing_audio_entries, save_manifest.
TtsReconcile ==
    /\ pc = "tts"
    /\ dangling' = DanglingIds(files[today][1], daily)
    /\ files' = [files EXCEPT ![today] =
                    << clear_missing_audio_entries(files[today][1], daily) >>]
    /\ pc' = "tts_check"
    /\ UNCHANGED << today, daily, cache, run, outcome, error, gpath, calls, failures,
                    deletes, gemini_reply, mem, startFile, prev, tampered, satisfied, retry,
                    env, call >>

\* The locals of generate_tts_for_manifest before its loop.
TtsLocals(manifest) ==
    [ manifest |-> manifest, i |-> 1, updated_any |-> FALSE, created_count |-> 0,
      reused_count |-> 0 ]

\* ensure_tts, second part: the readiness predicate, then generate_tts_for_manifest
\* up to its loop (it raises on a manifest without sections).
TtsCheck ==
    /\ pc = "tts_check"
    /\ IF all_sections_have_audio(files[today][1], daily)
       THEN /\ Returns("tts", "skipped", files)
            /\ mem' = << >>
       ELSE IF files[today][1].sections = << >>
            THEN /\ Raises("tts", "no_sections", files)
                 /\ mem' = << >>
            ELSE /\ pc' = "tts_gen"
                 /\ mem' = << TtsLocals(files[today][1]) >>
                 /\ UNCHANGED << files, outcome, error, startFile >>
    /\ UNCHANGED << today, daily, cache, run, gpath, calls, failures, deletes, gemini_reply,
                    dangling, prev, tampered, satisfied, retry, env, call >>

\* Mutant: the cache is never looked at.
CacheHit_never(store, path) == FALSE

\* cache_path.exists()
CacheHit(store, path) == Exists(store, path)

\* What gemini_tts_request_with_retry gives its caller: the payload, or an error.
TtsOutcomes == {"payload", "raise"}

\* Mutant: the spoken text's closing phrase is stored as the text of the section.
SectionDone_storing_spoken(e, m, date_str, now, created, reused) ==
    [m EXCEPT !.manifest.sections[m.i].audio =
                  << AudioRef(e, m.manifest.sections[m.i], date_str, now) >>,
              !.manifest.sections[m.i].text =
                  IF CLOSING_PHRASE_BY_SECTION(m.manifest.sections[m.i].id) = << >> THEN @
                  ELSE "Palabra",
              !.i = @ + 1,
              !.updated_any = TRUE,
              !.created_count = @ + created,
              !.reused_count = @ + reused]

\* The locals after the body of the loop ran for section i with the audio block set.
SectionDone(e, m, date_str, now, created, reused) ==
    [m EXCEPT !.manifest.sections[m.i].audio =
                  << AudioRef(e, m.manifest.sections[m.i], date_str, now) >>,
              !.i = @ + 1,
              !.updated_any = TRUE,
              !.created_count = @ + created,
              !.reused_count = @ + reused]

\* Mutant: the manifest in memory, with a reference for the section whose synthesis
\* failed, is written when the error passes through.
AfterSynthesisError_saving(fs, day, m, e, now) ==
    [fs EXCEPT ![day] =
        << [m.manifest EXCEPT !.sections[m.i].audio =
                << AudioRef(e, m.manifest.sections[m.i], day, now) >>] >>]

\* The manifest files when gemini_tts_request_with_retry raises inside the loop: the
\* error leaves generate_tts_for_manifest before the write-back, nothing is written.
AfterSynthesisError(fs, day, m, e, now) == fs

\* One pass of the loop of generate_tts_for_manifest.
TtsSection ==
    /\ pc = "tts_gen"
    /\ mem[1].i <= Len(mem[1].manifest.sections)
    /\ LET m == mem[1]
           sec == m.manifest.sections[m.i]
           ref == AudioRef(env, sec, today, run)
           tts_text == add_closing_phrase(sec.id, << normalize_text(sec.text) >>)
       IN IF TtsSkips(sec)
          THEN /\ mem' = << [m EXCEPT !.i = @ + 1] >>
               /\ UNCHANGED << files, daily, cache, calls, failures, pc, outcome, error >>
          ELSE IF CacheHit(cache, ref.cache_path)
          THEN /\ daily' = link_audio_to_date(daily, cache, ref.cache_path, today, sec.id)
               /\ mem' = << SectionDone(env, m, today, run, 0, 1) >>
               /\ UNCHANGED << files, cache, calls, failures, pc, outcome, error >>
          ELSE \E out \in TtsOutcomes :
                  IF out = "raise"
                  THEN /\ failures < MaxFailures
                       /\ failures' = failures + 1
                       /\ calls' = [calls EXCEPT !.tts = @ + 1]
                       /\ pc' = "failed"
                       /\ outcome' = [outcome EXCEPT !["tts"] = "failed"]
                       /\ error' = "tts"
                       /\ mem' = << >>
                       /\ files' = AfterSynthesisError(files, today, m, env, run)
                       /\ UNCHANGED << daily, cache >>
                  ELSE /\ calls' = [calls EXCEPT !.tts = @ + 1, !.cache = @ + 1]
                       /\ cache' = write_wav(cache, ref.cache_path,
                                             gemini_tts_request(tts_text, ref.model,
                                                                ref.voice_name))
                       /\ daily' = link_audio_to_date(daily, cache', ref.cache_path, today,
                                                      sec.id)
                       /\ mem' = << SectionDone(env, m, today, run, 1, 0) >>
                       /\ UNCHANGED << files, failures, pc, outcome, error >>
    /\ UNCHANGED << today, run, gpath, deletes, gemini_reply, startFile, dangling,
                    prev, tampered, satisfied, retry, env, call >>

\* The manifest generate_tts_for_manifest writes back.
WrittenBack(e, m, now) ==
    [m.manifest EXCEPT !.audio_generation =
        << [ last_run_at |-> now, provider |-> "gemini-tts", model |-> e.model,
             style_profile_id |-> e.style_profile_id,
             voices |-> [ PRIEST |-> e.voice_priest, LECTOR |-> e.voice_lector ],
             created |-> m.created_count, reused |-> m.reused_count ] >>]

\* The end of generate_tts_for_manifest: the write-back, and ensure_tts returns.
TtsWriteBack ==
    /\ pc = "tts_gen"
    /\ mem[1].i > Len(mem[1].manifest.sections)
    /\ Returns("tts", "ran",
               IF mem[1].updated_any
               THEN [files EXCEPT ![today] = << WrittenBack(env, mem[1], run) >>]
               ELSE files)
    /\ mem' = << >>
    /\ UNCHANGED << today, daily, cache, run, gpath, calls, failures, deletes, gemini_reply,
                    dangling, prev, tampered, satisfied, retry, env, call >>

\* Between runs, an audio file of one of the DeletableIds sections is removed from
\* storage: its by-date copy, or its cache artifact.
DeleteAudio ==
    /\ pc \in {"done", "failed"}
    /\ deletes < MaxDeletes
    /\ deletes' = deletes + 1
    /\ tampered' = TRUE
    /\ \/ /\ \E f \in daily : f.path.sec \in DeletableIds /\ daily' = daily \ {f}
          /\ UNCHANGED cache
       \/ /\ \E f \in cache : f.path.hash[1][1] \in DeletableIds /\ cache' = cache \ {f}
          /\ UNCHANGED daily
    /\ UNCHANGED << today, files, pc, run, outcome, error, gpath, calls, failures,
                    gemini_reply, mem, startFile, dangling, prev, satisfied, retry, env, call >>

Next ==
    \/ StartRun
    \/ EnsureDominicos
    \/ EnsurePrayers
    \/ EnsureGemini
    \/ TtsReconcile
    \/ TtsCheck
    \/ TtsSection
    \/ TtsWriteBack
    \/ DeleteAudio

Spec == Init /\ [][Next]_vars

\* ------------------------------------------- generate_tts.py run on its own
\* The environments a run of generate_tts.py is started with: the defaults, and the
\* defaults with another priest voice, another model, another style profile.
Envs ==
    { DefaultEnv,
      [DefaultEnv EXCEPT !.voice_priest = "Puck"],
      [DefaultEnv EXCEPT !.model = "gemini-2.5-pro-preview-tts"],
      [DefaultEnv EXCEPT !.style_profile_id = "priest_es_co_v2"] }

\* A manifest the first three stages built: two readings and the prayers.
BuiltManifest(day) ==
    upsert_prayers_into_manifest(
        build_manifest(day, PdfUrl(day),
                       [ reachable |-> TRUE, first_reading |-> "fr", psalm |-> "",
                         second_reading |-> "", gospel |-> "go" ]),
        [ id \in PRAYERS_IDS |-> Prayer(id) ])

\* The manifest files generate_tts.py is run on: a built one, one with a section
\* without text_hash, and one without sections.
AudioManifests(day) ==
    { BuiltManifest(day), HashlessManifest(day),
      [BaseManifest(day) EXCEPT !.sections = << >>] }

AudioInit ==
    /\ today = 1
    /\ \E m \in AudioManifests(1) :
          files = [d \in Days |-> IF d = 1 THEN << m >> ELSE << >>]
    /\ daily = {}
    /\ cache = {}
    /\ pc = "idle"
    /\ run = 0
    /\ outcome = NoOutcome
    /\ error = ""
    /\ gpath = 0
    /\ calls = NoCalls
    /\ failures = 0
    /\ deletes = 0
    /\ gemini_reply = << >>
    /\ mem = << >>
    /\ startFile = << >>
    /\ dangling = {}
    /\ prev = << >>
    /\ tampered = FALSE
    /\ satisfied = FALSE
    /\ retry = RetryIdle
    /\ env \in Envs
    /\ call = NoCall

\* python3 app/generate_tts.py <manifest of today>: generate_tts_for_manifest up to
\* its loop.
TtsMain ==
    /\ pc \in {"idle", "done", "failed"}
    /\ run < MaxRuns
    /\ run' = run + 1
    /\ IF files[today][1].sections = << >>
       THEN /\ pc' = "failed"
            /\ outcome' = [NoOutcome EXCEPT !["tts"] = "failed"]
            /\ error' = "no_sections"
            /\ mem' = << >>
       ELSE /\ pc' = "tts_gen"
            /\ outcome' = NoOutcome
            /\ error' = ""
            /\ mem' = << TtsLocals(files[today][1]) >>
    /\ calls' = NoCalls
    /\ startFile' = files[today]
    /\ dangling' = {}
    /\ prev' = IF pc = "done" /\ ~tampered THEN files[today] ELSE << >>
    /\ tampered' = FALSE
    /\ UNCHANGED << today, files, daily, cache, gpath, failures, deletes, gemini_reply,
                    satisfied, retry, env, call >>

\* Between two runs the environment variables are set to other values.
Reconfigure ==
    /\ pc \in {"done", "failed"}
    /\ run < MaxRuns
    /\ \E e \in Envs \ {env} : env' = e
    /\ UNCHANGED << today, files, daily, cache, pc, run, outcome, error, gpath, calls,
                    failures, deletes, gemini_reply, mem, startFile, dangling, prev,
                    tampered, satisfied, retry, call >>

AudioNext ==
    \/ TtsMain
    \/ TtsSection
    \/ TtsWriteBack
    \/ DeleteAudio
    \/ Reconfigure

SpecAudio == AudioInit /\ [][AudioNext]_vars

\* ------------------------------------ generate_tts.py run twice at the same time
\* Two processes run generate_tts.py on the manifest of the same date.  write_wav is
\* two steps here: wave.open(path, "wb") creates the file at the path it was given,
\* writeframes and close complete it; a process may be killed in between.

Workers == {1, 2}

\* The bytes of a file wave.open has created and nothing has been written to.
PartialWav == << >>

\* wave.open(str(path), "wb"): the file exists at path, truncated.
wave_open(store, path) == write_wav(store, path, PartialWav)

IdleWorker == [ at |-> "idle" ]

\* The locals of a process in generate_tts_for_manifest: those of TtsLocals, where it
\* is, the payload it is writing, and the sections it took from a partial file.
WorkerLocals(manifest) ==
    [ manifest |-> manifest, i |-> 1, updated_any |-> FALSE, created_count |-> 0,
      reused_count |-> 0, at |-> "loop", pcm |-> << >>, partial |-> {} ]

\* A manifest with two sections to synthesize.
TwoReadings(day) ==
    build_manifest(day, PdfUrl(day),
                   [ reachable |-> TRUE, first_reading |-> "fr", psalm |-> "",
                     second_reading |-> "", gospel |-> "go" ])

WorkersInit ==
    /\ today = 1
    /\ files = [d \in Days |-> IF d = 1 THEN << TwoReadings(1) >> ELSE << >>]
    /\ daily = {}
    /\ cache = {}
    /\ pc = "workers"
    /\ run = 0
    /\ outcome = NoOutcome
    /\ error = ""
    /\ gpath = 0
    /\ calls = NoCalls
    /\ failures = 0
    /\ deletes = 0
    /\ gemini_reply = << >>
    /\ mem = [w \in Workers |-> IdleWorker]
    /\ startFile = << >>
    /\ dangling = {}
    /\ prev = << >>
    /\ tampered = FALSE
    /\ satisfied = FALSE
    /\ retry = RetryIdle
    /\ env = DefaultEnv
    /\ call = NoCall

\* A process is started, for the first time or after it ended or was killed.
WorkerMain(w) ==
    /\ mem[w].at \in {"idle", "ended", "killed"}
    /\ run < MaxRuns
    /\ run' = run + 1
    /\ mem' = [mem EXCEPT ![w] = WorkerLocals(files[today][1])]
    /\ UNCHANGED << today, files, daily, cache, pc, outcome, error, gpath, calls, failures,
                    deletes, gemini_reply, startFile, dangling, prev, tampered, satisfied,
                    retry, env, call >>

\* One pass of the loop, up to wave.open when the artifact is not in the cache.
WorkerSection(w) ==
    /\ mem[w].at = "loop"
    /\ mem[w].i <= Len(mem[w].manifest.sections)
    /\ LET m == mem[w]
           sec == m.manifest.sections[m.i]
           ref == AudioRef(env, sec, today, run)
           tts_text == add_closing_phrase(sec.id, << normalize_text(sec.text) >>)
       IN IF TtsSkips(sec)
          THEN /\ mem' = [mem EXCEPT ![w].i = @ + 1]
               /\ UNCHANGED << daily, cache, calls >>
          ELSE IF CacheHit(cache, ref.cache_path)
          THEN /\ daily' = link_audio_to_date(daily, cache, ref.cache_path, today, sec.id)
               /\ mem' = [mem EXCEPT ![w] =
                            [SectionDone(env, m, today, run, 0, 1) EXCEPT !.partial =
                                IF BytesAt(cache, ref.cache_path) = PartialWav
                                THEN @ \cup {sec.id} ELSE @]]
               /\ UNCHANGED << cache, calls >>
          ELSE \E out \in TtsOutcomes :
                  IF out = "raise"
                  THEN /\ calls' = [calls EXCEPT !.tts = @ + 1]
                       /\ mem' = [mem EXCEPT ![w].at = "ended"]
                       /\ UNCHANGED << daily, cache >>
                  ELSE /\ calls' = [calls EXCEPT !.tts = @ + 1]
                       /\ cache' = wave_open(cache, ref.cache_path)
                       /\ mem' = [mem EXCEPT ![w].at = "writing",
                                             ![w].pcm =
                                                 << gemini_tts_request(tts_text, ref.model,
                                                                       ref.voice_name) >>]
                       /\ UNCHANGED daily
    /\ UNCHANGED << today, files, pc, run, outcome, error, gpath, failures, deletes,
                    gemini_reply, startFile, dangling, prev, tampered, satisfied, retry,
                    env, call >>

\* writeframes and close, then link_audio_to_date and the audio block.
WorkerWrite(w) ==
    /\ mem[w].at = "writing"
    /\ LET m == mem[w]
           sec == m.manifest.sections[m.i]
           ref == AudioRef(env, sec, today, run)
       IN /\ cache' = write_wav(cache, ref.cache_path, m.pcm[1])
          /\ daily' = link_audio_to_date(daily, cache', ref.cache_path, today, sec.id)
          /\ mem' = [mem EXCEPT ![w] =
                       [SectionDone(env, m, today, run, 1, 0) EXCEPT !.at = "loop",
                                                                      !.pcm = << >>]]
    /\ calls' = [calls EXCEPT !.cache = @ + 1]
    /\ UNCHANGED << today, files, pc, run, outcome, error, gpath, failures, deletes,
                    gemini_reply, startFile, dangling, prev, tampered, satisfied, retry,
                    env, call >>

\* The process is killed between wave.open and close.
WorkerKill(w) ==
    /\ mem[w].at = "writing"
    /\ failures < MaxFailures
    /\ failures' = failures + 1
    /\ mem' = [mem EXCEPT ![w].at = "killed", ![w].pcm = << >>]
    /\ UNCHANGED << today, files, daily, cache, pc, run, outcome, error, gpath, calls,
                    deletes, gemini_reply, startFile, dangling, prev, tampered, satisfied,
                    retry, env, call >>

\* The write-back of the manifest the process holds, and the process ends.
WorkerWriteBack(w) ==
    /\ mem[w].at = "loop"
    /\ mem[w].i > Len(mem[w].manifest.sections)
    /\ files' = IF mem[w].updated_any
                THEN [files EXCEPT ![today] = << WrittenBack(env, mem[w], run) >>]
                ELSE files
    /\ mem' = [mem EXCEPT ![w].at = "ended"]
    /\ UNCHANGED << today, daily, cache, pc, run, outcome, error, gpath, calls, failures,
                    deletes, gemini_reply, startFile, dangling, prev, tampered, satisfied,
                    retry, env, call >>

WorkersNext ==
    \E w \in Workers :
        \/ WorkerMain(w)
        \/ WorkerSection(w)
        \/ WorkerWrite(w)
        \/ WorkerKill(w)
        \/ WorkerWriteBack(w)

SpecWorkers == WorkersInit /\ [][WorkersNext]_vars

\* ------------------------------------------- gemini_tts_request_with_retry
\* The default of the max_retries parameter.
DEFAULT_MAX_RETRIES == 6

\* delay = 2
BASE_DELAY == 2

\* The cap of delay = min(delay * 2, 30).
MAX_DELAY == 30

Min(a, b) == IF a <= b THEN a ELSE b

\* Mutant: the delay doubles without a cap.
NextDelay_uncapped(delay) == delay * 2

\* Mutant: the delay never grows.
NextDelay_constant(delay) == delay

NextDelay(delay) == Min(delay * 2, MAX_DELAY)

HttpError(code) == [ kind |-> "HTTPError", status |-> code ]

NetError(kind) == [ kind |-> kind, status |-> 0 ]

NoError == NetError("")

\* What one gemini_tts_request can raise: HTTP errors of some statuses (status 0: an
\* HTTPError without response), requests' Timeout and ConnectionError, and the
\* RuntimeError of a missing key or an unexpected response shape.
TtsErrors ==
    {HttpError(c) : c \in {0, 400, 403, 429, 500, 501, 502, 503, 504}}
        \cup {NetError("Timeout"), NetError("ConnectionError"), NetError("RuntimeError")}

\* status in (429, 500, 502, 503, 504)
RetriedStatus(code) == code \in {429, 500, 502, 503, 504}

\* Mutant: the loop makes one pass more than max_retries.
InRange_one_more(attempt, max_retries) == attempt <= max_retries + 1

\* attempt in range(1, max_retries + 1), for the attempt the loop would start next.
InRange(attempt, max_retries) == attempt <= max_retries

\* Mutant: every error is caught and retried.
Retried_all(err) == TRUE

\* The errors the loop catches and retries after a sleep.
Retried(err) ==
    \/ err.kind = "HTTPError" /\ RetriedStatus(err.status)
    \/ err.kind \in {"Timeout", "ConnectionError"}

\* The call starts: delay = 2, last_err = None, attempt = 1.  requests counts the
\* calls of gemini_tts_request, err is what the latest of them raised, carried is the
\* error the final RuntimeError names in its message.
RetryCall ==
    /\ retry.status = "idle"
    /\ \E n \in 0..DEFAULT_MAX_RETRIES :
          retry' = [ max_retries |-> n, attempt |-> 1, delay |-> BASE_DELAY, waits |-> << >>,
                     last_err |-> NoError, status |-> "calling", raised |-> NoError,
                     requests |-> 0, err |-> NoError, carried |-> NoError ]
    /\ UNCHANGED pipelineVars

\* One pass of the for loop: the request returns the payload, or raises.
RetryAttempt ==
    /\ retry.status = "calling"
    /\ InRange(retry.attempt, retry.max_retries)
    /\ \/ retry' = [retry EXCEPT !.status = "returned",
                                 !.requests = @ + 1,
                                 !.err = NoError]
       \/ \E e \in TtsErrors :
             IF Retried(e)
             THEN retry' = [retry EXCEPT !.last_err = e,
                                         !.waits = Append(@, retry.delay),
                                         !.delay = NextDelay(@),
                                         !.attempt = @ + 1,
                                         !.requests = @ + 1,
                                         !.err = e]
             ELSE retry' = [retry EXCEPT !.last_err = IF e.kind = "HTTPError" THEN e ELSE @,
                                         !.raised = e,
                                         !.status = "raised",
                                         !.requests = @ + 1,
                                         !.err = e]
    /\ UNCHANGED pipelineVars

\* The loop ran out: RuntimeError("TTS failed after ... Last error: {last_err}").
RetryExhausted ==
    /\ retry.status = "calling"
    /\ ~InRange(retry.attempt, retry.max_retries)
    /\ retry' = [retry EXCEPT !.status = "exhausted",
                              !.raised = [ kind |-> "RuntimeError", status |-> 0 ],
                              !.carried = retry.last_err]
    /\ UNCHANGED pipelineVars

RetryInit ==
    /\ today = 1
    /\ files = [d \in Days |-> << >>]
    /\ daily = {}
    /\ cache = {}
    /\ pc = "idle"
    /\ run = 0
    /\ outcome = NoOutcome
    /\ error = ""
    /\ gpath = 0
    /\ calls = NoCalls
    /\ failures = 0
    /\ deletes = 0
    /\ gemini_reply = << >>
    /\ mem = << >>
    /\ startFile = << >>
    /\ dangling = {}
    /\ prev = << >>
    /\ tampered = FALSE
    /\ satisfied = FALSE
    /\ retry = RetryIdle
    /\ env = DefaultEnv
    /\ call = NoCall

RetryNext ==
    \/ RetryCall
    \/ RetryAttempt
    \/ RetryExhausted

SpecRetry == RetryInit /\ [][RetryNext]_vars

\* The call runs in one thread that nothing suspends: a step that can be taken is taken.
SpecRetryLive == SpecRetry /\ WF_vars(RetryNext)

\* ------------------------------------------------------------ text extraction
\* DownloadText.py on a text spelled out: a sequence of characters, where a marker, or
\* a stretch of text without white space and without marker, counts as one character.
\* Positions count from 0 as in Python; -1 is "not found" and << >> is None.

\* s.replace("\r", "\n")
ReplaceReturns(s) == [i \in 1..Len(s) |-> IF s[i] = "\r" THEN "\n" ELSE s[i]]

\* re.sub(r"[ \t]+", " ", s)
RECURSIVE CollapseBlanks(_)
CollapseBlanks(s) ==
    IF s = << >> THEN << >>
    ELSE IF Head(s) \in {" ", "\t"}
         THEN IF Len(s) >= 2 /\ s[2] \in {" ", "\t"} THEN CollapseBlanks(Tail(s))
              ELSE << " " >> \o CollapseBlanks(Tail(s))
         ELSE << Head(s) >> \o CollapseBlanks(Tail(s))

\* re.sub(r"\n{3,}", "\n\n", s)
RECURSIVE CollapseNewlines(_)
CollapseNewlines(s) ==
    IF s = << >> THEN << >>
    ELSE IF Len(s) >= 3 /\ s[1] = "\n" /\ s[2] = "\n" /\ s[3] = "\n"
         THEN CollapseNewlines(Tail(s))
         ELSE << Head(s) >> \o CollapseNewlines(Tail(s))

RECURSIVE lstrip(_, _)
lstrip(s, chars) == IF s # << >> /\ Head(s) \in chars THEN lstrip(Tail(s), chars) ELSE s

\* str.strip() of a text spelled out.
str_strip(s) == lstrip(rstrip(s, WhiteSpace), WhiteSpace)

\* Mutant: normalize_text replacing the carriage returns after collapsing the newlines.
DownloadText_normalize_text_late_returns(s) ==
    str_strip(ReplaceReturns(CollapseNewlines(CollapseBlanks(s))))

\* normalize_text of DownloadText.py on a text spelled out.
DownloadText_normalize_text(s) ==
    str_strip(CollapseNewlines(CollapseBlanks(ReplaceReturns(s))))

\* normalize_text of add_prayers_to_manifest.py on a text spelled out: strip, then the
\* two substitutions.
add_prayers_to_manifest_normalize_text(s) ==
    CollapseNewlines(CollapseBlanks(str_strip(s)))

\* normalize_text of enrich_manifest_with_gemini.py: the same three statements.
enrich_manifest_with_gemini_normalize_text(s) ==
    CollapseNewlines(CollapseBlanks(str_strip(s)))

\* normalize_text of generate_tts.py: (s or "").strip(), then the two substitutions.
generate_tts_normalize_text(s) == CollapseNewlines(CollapseBlanks(str_strip(s)))

Modules ==
    {"DownloadText", "add_prayers_to_manifest", "enrich_manifest_with_gemini", "generate_tts"}

\* The normalize_text of a module.
NormalizeOf(module, s) ==
    CASE module = "DownloadText" -> DownloadText_normalize_text(s)
      [] module = "add_prayers_to_manifest" -> add_prayers_to_manifest_normalize_text(s)
      [] module = "enrich_manifest_with_gemini" ->
            enrich_manifest_with_gemini_normalize_text(s)
      [] OTHER -> generate_tts_normalize_text(s)

\* f"{sec_id}|{sec_type}|{text_n}", digested, of the text a module's producer stores
\* (section_obj, template_to_manifest_section, section_to_manifest_shape).
TextHashOf(module, sec_id, sec_type, text) ==
    sha256_hex(<< sec_id, "|", sec_type, "|" >> \o NormalizeOf(module, text))

PRIMERA_LECTURA == "primera lectura"

SALMO_DE_HOY == "salmo de hoy"

SEGUNDA_LECTURA == "segunda lectura"

EVANGELIO_DEL_DIA == "evangelio del dia"

LECTURA_DEL_SANTO_EVANGELIO == "lectura del santo evangelio"

EVANGELIO_DE_HOY_EN_VIDEO == "evangelio de hoy en video"

REFLEXION_DEL_EVANGELIO_DE_HOY == "reflexion del evangelio de hoy"

\* The least number of a non-empty set of numbers.
Least(S) == CHOOSE p \in S : \A q \in S : p <= q

\* str.find(sub, start)
find(s, sub, start) ==
    LET hits == { p \in start..(Len(s) - 1) : s[p + 1] = sub }
    IN IF hits = {} THEN -1 ELSE Least(hits)

\* _find_all: the positions of the matches, in increasing order, letter case ignored.
_find_all(text, pattern) ==
    SelectSeq([i \in 1..Len(text) |-> i - 1], LAMBDA p : lower(text)[p + 1] = pattern)

\* text[start:end] for start >= 0 and end >= 0 or None.
PySlice(text, start, end) ==
    IF end = << >> THEN SubSeq(text, start + 1, Len(text))
    ELSE SubSeq(text, start + 1, IF end[1] < Len(text) THEN end[1] ELSE Len(text))

_slice(text, start, end) == str_strip(PySlice(text, start, end))

Max(a, b) == IF a > b THEN a ELSE b

\* Mutant: the first match of the header is taken, however many there are.
EvSection_first(t) ==
    LET ev_day_positions == _find_all(t, EVANGELIO_DEL_DIA)
    IN IF Len(ev_day_positions) >= 1 THEN ev_day_positions[1] ELSE -1

\* The position extract_sections takes for the gospel section: the second match of the
\* header, the only one when there is one, -1 when there is none.
EvSection(t) ==
    LET ev_day_positions == _find_all(t, EVANGELIO_DEL_DIA)
    IN IF Len(ev_day_positions) >= 2 THEN ev_day_positions[2]
       ELSE IF Len(ev_day_positions) = 1 THEN ev_day_positions[1]
       ELSE -1

\* Mutant: no end marker is looked for.
EvEnd_none(t, i_ev_reading) == << >>

\* i_ev_end: the first end marker at or after the start of the gospel reading, None
\* when there is none.
EvEnd(t, i_ev_reading) ==
    LET end_markers ==
            { find(lower(t), mk, Max(i_ev_reading, 0)) :
                mk \in {EVANGELIO_DE_HOY_EN_VIDEO, REFLEXION_DEL_EVANGELIO_DE_HOY} } \ {-1}
    IN IF end_markers = {} THEN << >> ELSE << Least(end_markers) >>

\* Mutant: without reading marker and without header the gospel starts at the top.
GospelSlice_from_top(t, i_ev_reading, i_ev_section, i_ev_end) ==
    IF i_ev_reading # -1 THEN _slice(t, i_ev_reading, i_ev_end)
    ELSE _slice(t, Max(i_ev_section, 0), i_ev_end)

\* out["gospel"]: from the reading marker, else from the header, to i_ev_end.
GospelSlice(t, i_ev_reading, i_ev_section, i_ev_end) ==
    IF i_ev_reading # -1 THEN _slice(t, i_ev_reading, i_ev_end)
    ELSE IF i_ev_section # -1 THEN _slice(t, i_ev_section, i_ev_end)
    ELSE << >>

\* re.sub(r"^<header>\s*", "", s, flags=re.I).strip()
RemoveHeader(s, header) ==
    IF s # << >> /\ lower_char(Head(s)) = header THEN str_strip(Tail(s)) ELSE str_strip(s)

\* extract_sections up to its validation: the four slices.
extract_sections(text) ==
    LET t == DownloadText_normalize_text(text)
        i_first == find(lower(t), PRIMERA_LECTURA, 0)
        i_psalm == find(lower(t), SALMO_DE_HOY, 0)
        i_second == find(lower(t), SEGUNDA_LECTURA, 0)
        i_ev_section == EvSection(t)
        i_ev_reading == find(lower(t), LECTURA_DEL_SANTO_EVANGELIO, Max(i_ev_section, 0))
        i_ev_end == EvEnd(t, i_ev_reading)
        next_cut == IF i_second # -1 /\ i_second > i_psalm THEN << i_second >>
                    ELSE IF i_ev_section # -1 /\ i_ev_section > i_psalm
                         THEN << i_ev_section >>
                         ELSE << >>
    IN [ first_reading |->
            RemoveHeader(IF i_first # -1 /\ i_psalm # -1 /\ i_psalm > i_first
                         THEN _slice(t, i_first, << i_psalm >>) ELSE << >>,
                         PRIMERA_LECTURA),
         psalm |->
            RemoveHeader(IF i_psalm # -1 THEN _slice(t, i_psalm, next_cut) ELSE << >>,
                         SALMO_DE_HOY),
         second_reading |->
            IF i_second # -1 /\ i_ev_section # -1 /\ i_ev_section > i_second
            THEN _slice(t, i_second, << i_ev_section >>) ELSE << >>,
         gospel |-> GospelSlice(t, i_ev_reading, i_ev_section, i_ev_end) ]

\* A text spelled out as the token that stands for it in a manifest.
TextToken(chars) == IF chars = << >> THEN "" ELSE "tx"

\* What the fetch and extract_sections give for a page whose text is text.
ExtractedSource(text) ==
    LET out == extract_sections(text)
    IN [ reachable |-> TRUE, first_reading |-> TextToken(out.first_reading),
         psalm |-> TextToken(out.psalm), second_reading |-> TextToken(out.second_reading),
         gospel |-> TextToken(out.gospel) ]

\* ------------------------------------------------- functions called on their own
\* Every variable but call.
programVars == << today, files, daily, cache, pc, run, outcome, error, gpath, calls,
                 failures, deletes, gemini_reply, mem, startFile, dangling, prev,
                 tampered, satisfied, retry, env >>

\* Values of text_hash, model, voice_name and style_profile_id, spelled out: a
\* letter, and a letter with the character "|" after or before it.
HashTexts == { << "x" >>, << "x", "|" >>, << "|", "x" >> }

HashArgs == HashTexts \X HashTexts \X HashTexts \X HashTexts

\* compute_audio_hash is called on two quadruples of arguments.
AudioHashCall ==
    /\ call = NoCall
    /\ \E a \in HashArgs, b \in HashArgs :
          call' = [ fn |-> "compute_audio_hash", a |-> a, b |-> b,
                    hash_a |-> compute_audio_hash(a[1], a[2], a[3], a[4]),
                    hash_b |-> compute_audio_hash(b[1], b[2], b[3], b[4]) ]
    /\ UNCHANGED programVars

PALABRA_DE_DIOS ==
    << "P", "A", "L", "A", "B", "R", "A", " ", "D", "E", " ", "D", "I", "O", "S", "." >>

\* What a text given to add_closing_phrase begins with.
PhraseBodies == { << >>, << "go" >>, << "go", ".", " " >>, << "go", "\n" >> }

\* What it ends with: nothing, a closing phrase as it is, in lower and in upper
\* case, without its full stop, without its last letter, with a second full stop,
\* with white space after it, or twice.
PhraseEndings ==
    { << >>, PalabraDeDios, PalabraDelSenor, lower(PalabraDeDios), PALABRA_DE_DIOS,
      SubSeq(PalabraDeDios, 1, Len(PalabraDeDios) - 1),
      SubSeq(PalabraDeDios, 1, Len(PalabraDeDios) - 2),
      PalabraDeDios \o << "." >>,
      PalabraDeDios \o << " ", "\n" >>,
      PalabraDeDios \o << " ", "." >>,
      PalabraDeDios \o << "\n", "\n" >> \o PalabraDeDios }

PhraseTexts == { b \o e : b \in PhraseBodies, e \in PhraseEndings }

\* Section ids with a closing phrase, without one, and one VOICE_BY_SECTION lacks.
PhraseIds == {"first_reading", "psalm", "second_reading", "gospel", "homily", "section"}

\* add_closing_phrase is called on a text, and then on what it returned.
ClosingPhraseCall ==
    /\ call = NoCall
    /\ \E sec_id \in PhraseIds, text \in PhraseTexts :
          call' = [ fn |-> "add_closing_phrase", sec_id |-> sec_id, text |-> text,
                    result |-> add_closing_phrase(sec_id, text),
                    again |-> add_closing_phrase(sec_id, add_closing_phrase(sec_id, text)) ]
    /\ UNCHANGED programVars

\* A section after generate_tts_for_manifest wrote its audio block.
WithAudio(sec) == [sec EXCEPT !.audio = << AudioRef(DefaultEnv, sec, 1, 1) >>]

\* Sections of the manifests handed to an upsert: readings (a second_reading with
\* text and one without), two sections whose ids are not in ORDER, and a generated
\* section and a prayer that have audio.
UpsertPool ==
    { section_obj("gospel", "gospel", PdfUrl(1), "go"),
      section_obj("second_reading", "reading", PdfUrl(1), "sr"),
      section_obj("second_reading", "reading", PdfUrl(1), " "),
      section_obj("appendix", "reading", PdfUrl(1), "ax"),
      section_obj("notes", "reading", PdfUrl(1), "nt"),
      WithAudio(section_to_manifest_shape(Speech("welcome", "w"), << "generated_by_gemini" >>)),
      WithAudio(template_to_manifest_section("creed", Prayer("creed"))) }

SeqsUpTo(S, n) == UNION { [1..k -> S] : k \in 0..n }

\* Manifests whose section lists are in any order, with ids that may repeat.
UpsertManifests ==
    { [BaseManifest(1) EXCEPT !.sections = ss] : ss \in SeqsUpTo(UpsertPool, MaxSections) }

\* Sections the text-generation collaborator may return, in any order, an id
\* possibly more than once: two of ORDER, a blank second_reading, one outside ORDER.
GeneratedPool ==
    { Speech("welcome", "w"), Speech("closing", "c"), Speech("second_reading", " "),
      Speech("postscript", "p") }

GeneratedLists == SeqsUpTo(GeneratedPool, MaxSections - 1) \ { << >> }

CompleteTemplates == [ id \in PRAYERS_IDS |-> Prayer(id) ]

FourSections ==
    << Speech("welcome", "w"), Speech("homily", "h"), Speech("final_reflection", "f"),
       Speech("closing", "c") >>

\* Templates files for a call: those of TemplateFiles, and one for every set of
\* template ids a file may hold.
TemplateSources ==
    TemplateFiles \cup { [ id \in S |-> Prayer(id) ] : S \in SUBSET PRAYERS_IDS }

\* upsert_prayers_into_manifest is called on a manifest and a templates file, then on
\* its own result, and enrich_manifest on that result.
PrayersCall ==
    /\ call = NoCall
    /\ \E manifest \in UpsertManifests, templates \in TemplateSources :
          call' = IF TemplatesComplete(templates)
                  THEN LET result == upsert_prayers_into_manifest(manifest, templates)
                       IN [ fn |-> "upsert_prayers_into_manifest", manifest |-> manifest,
                            templates |-> templates, raised |-> FALSE, result |-> result,
                            again |-> upsert_prayers_into_manifest(result, templates),
                            other |-> enrich_manifest(result, FourSections) ]
                  ELSE [ fn |-> "upsert_prayers_into_manifest", manifest |-> manifest,
                         templates |-> templates, raised |-> TRUE,
                         after |-> upsert_prayers_raising(manifest, templates) ]
    /\ UNCHANGED programVars

\* enrich_manifest is called on a manifest and generated sections, then on its own
\* result, and upsert_prayers_into_manifest on that result.
EnrichCall ==
    /\ call = NoCall
    /\ \E manifest \in UpsertManifests, generated \in GeneratedLists :
          LET result == enrich_manifest(manifest, generated)
          IN call' = [ fn |-> "enrich_manifest", manifest |-> manifest,
                       generated |-> generated, result |-> result,
                       again |-> enrich_manifest(result, generated),
                       other |-> upsert_prayers_into_manifest(result, CompleteTemplates) ]
    /\ UNCHANGED programVars

\* The slices extract_sections may hand to build_manifest: each with text or empty.
SliceIds == {"first_reading", "psalm", "second_reading", "gospel"}

\* build_manifest is called on four slices.
BuildCall ==
    /\ call = NoCall
    /\ \E secs \in [SliceIds -> {"", "tx"}] :
          call' = [ fn |-> "build_manifest", secs |-> secs,
                    result |-> build_manifest(1, PdfUrl(1), secs) ]
    /\ UNCHANGED programVars

\* The markers of a page in the order of a usual page, as printed: the header at the
\* top and again before the gospel; in an order in which the reading marker and an
\* end marker come before the header; with three headers, a reading marker after
\* the first and after the third; and the readings followed by the header twice.
MarkerOrders ==
    { << "Evangelio del dia", "Primera lectura", "Salmo de hoy", SEGUNDA_LECTURA,
         "Evangelio del dia", "Lectura del santo evangelio", EVANGELIO_DE_HOY_EN_VIDEO,
         REFLEXION_DEL_EVANGELIO_DE_HOY >>,
      << LECTURA_DEL_SANTO_EVANGELIO, EVANGELIO_DE_HOY_EN_VIDEO, EVANGELIO_DEL_DIA,
         SALMO_DE_HOY, PRIMERA_LECTURA, SEGUNDA_LECTURA, EVANGELIO_DEL_DIA,
         REFLEXION_DEL_EVANGELIO_DE_HOY >>,
      << EVANGELIO_DEL_DIA, LECTURA_DEL_SANTO_EVANGELIO, PRIMERA_LECTURA,
         EVANGELIO_DEL_DIA, SALMO_DE_HOY, EVANGELIO_DEL_DIA,
         "Lectura del santo evangelio", EVANGELIO_DE_HOY_EN_VIDEO >>,
      << "Primera lectura", "Salmo de hoy", SEGUNDA_LECTURA, "Evangelio del dia",
         "Evangelio del dia", "Lectura del santo evangelio", EVANGELIO_DE_HOY_EN_VIDEO,
         REFLEXION_DEL_EVANGELIO_DE_HOY >> }

\* The page that keeps the markers of the positions kept, each followed by text.
RECURSIVE Page(_, _, _)
Page(markers, kept, i) ==
    IF i > Len(markers) THEN << >>
    ELSE (IF i \in kept THEN << markers[i], " ", "tx", "\n" >> ELSE << >>)
         \o Page(markers, kept, i + 1)

\* The texts of the pages: text alone, and every choice of markers of an order.
Pages ==
    { << "tx", "\n" >> \o Page(markers, kept, 1) :
        markers \in MarkerOrders, kept \in SUBSET (1..8) }

NoFiles == [d \in Days |-> << >>]

\* generate_manifest_from_dominicos from extract_sections on: the slices, whether
\* extract_sections raised, what it returned, and the manifest file saved.
ExtractCall ==
    /\ call = NoCall
    /\ \E text \in Pages :
          LET src == ExtractedSource(text)
              raised == DominicosError(src) = "gospel"
          IN call' = [ fn |-> "extract_sections", text |-> text,
                       out |-> extract_sections(text), raised |-> raised,
                       returned |-> IF raised THEN << >> ELSE << extract_sections(text) >>,
                       saved |-> generate_manifest_from_dominicos(NoFiles, 1, src)[1] ]
    /\ UNCHANGED programVars

WhiteChars == {" ", "\t", "\n", "\r"}

\* Runs of white space of up to MaxWhite characters.
WhiteRuns == SeqsUpTo(WhiteChars, MaxWhite)

\* Texts handed to normalize_text: two words with a run of white space between them
\* and at most one character of white space before and after, and white space alone.
NormalizeTexts ==
    { lead \o << "a" >> \o mid \o << "b" >> \o trail :
        lead \in SeqsUpTo(WhiteChars, 1), mid \in WhiteRuns, trail \in SeqsUpTo(WhiteChars, 1) }
    \cup WhiteRuns

\* Texts a text is compared with: the two words with nothing, a space, one, two and
\* four newlines or a carriage return between them, and no text.
OtherTexts ==
    { << "a", "b" >>, << "a", " ", "b" >>, << "a", "\n", "b" >>, << "a", "\n", "\n", "b" >>,
      << " ", "a", "\n", "\n", "\n", "\n", "b", "\t" >>, << "a", "\r", "b" >>, << >> }

\* normalize_text of a module is called on a text, and on what it returned; the
\* text_hash of a reading is computed from the text, from its normalization and from
\* another text.
NormalizeCall ==
    /\ call = NoCall
    /\ \E module \in Modules, text \in NormalizeTexts, other \in OtherTexts :
          LET result == NormalizeOf(module, text)
          IN call' = [ fn |-> "normalize_text", module |-> module, text |-> text,
                       other |-> other, result |-> result,
                       again |-> NormalizeOf(module, result),
                       result_other |-> NormalizeOf(module, other),
                       hash |-> TextHashOf(module, "psalm", "psalm", text),
                       hash_again |-> TextHashOf(module, "psalm", "psalm", result),
                       hash_other |-> TextHashOf(module, "psalm", "psalm", other) ]
    /\ UNCHANGED programVars

FunctionsNext ==
    \/ AudioHashCall
    \/ ClosingPhraseCall
    \/ PrayersCall
    \/ EnrichCall
    \/ BuildCall
    \/ ExtractCall
    \/ NormalizeCall

SpecFunctions == RetryInit /\ [][FunctionsNext]_vars

\* ------------------------------------------------------------------ claims
\* A manifest without its timestamp and provenance fields: generated_at of every
\* audio reference, last_run_at and the created/reused counters.
StripMeta(manifest) ==
    [manifest EXCEPT
        !.sections = [i \in 1..Len(manifest.sections) |->
                         IF HasAudio(manifest.sections[i])
                         THEN [manifest.sections[i] EXCEPT !.audio[1].generated_at = 0]
                         ELSE manifest.sections[i]],
        !.audio_generation = IF manifest.audio_generation = << >> THEN << >>
                             ELSE << [manifest.audio_generation[1] EXCEPT
                                        !.last_run_at = 0, !.created = 0, !.reused = 0] >>]

\* C1: when a run returns right after a run that returned, with the same inputs and
\* storage left alone in between, today's manifest equals the one the first run left
\* in every field but generated_at, last_run_at and the created/reused counters.
C1_RerunIdentical ==
    (pc = "done" /\ prev # << >>) => StripMeta(files[today][1]) = StripMeta(prev[1])

\* C1 witness: a second run that regenerated audio (the reply lacked a section, so
\* Enrich ran again) returned.
C1_Witness ==
    /\ pc = "done" /\ prev # << >>
    /\ outcome["gemini"] = "ran" /\ outcome["tts"] = "ran"
    /\ files[today] # prev

\* The manifest file with the audio of the given ids set to null.
Cleared(file, ids) ==
    IF file = << >> THEN << >>
    ELSE << [file[1] EXCEPT !.sections =
                [i \in 1..Len(file[1].sections) |->
                    IF file[1].sections[i].id \in ids
                    THEN [file[1].sections[i] EXCEPT !.audio = << >>]
                    ELSE file[1].sections[i]]] >>

\* C2 as stated: after a stage raised, today's manifest file is what it was when the
\* stage started.
C2_FailedStageLeavesManifest == pc = "failed" => files[today] = startFile

\* C2 amended: after a stage raised, today's manifest is what it was when the stage
\* started, except that after a failure of ensure_tts the audio references whose
\* file was missing when the stage started are null.
C2_FailedStageLeavesReconciled ==
    pc = "failed" =>
        files[today] = IF outcome["tts"] = "failed" THEN Cleared(startFile, dangling)
                       ELSE startFile

\* C2 witness: synthesis failed after the reconciliation had cleared a reference.
C2_Witness == pc = "failed" /\ error = "tts" /\ dangling # {}

\* C3: when main has returned (and storage is as the run left it), every section of
\* today's manifest with non-blank text has an audio reference whose path names an
\* existing file.
C3_DoneImpliesAudio ==
    (pc = "done" /\ ~tampered) =>
        \A i \in 1..Len(files[today][1].sections) :
            LET s == files[today][1].sections[i]
            IN strip(s.text) # "" => HasAudio(s) /\ Exists(daily, s.audio[1].path)

\* C4: the manifest the Enrich stage loads and saves is the one of the run's date.
C4_EnrichUsesRunManifest == gpath # 0 => gpath = today

\* C5: a stage has an outcome only when every stage before it has returned (ran or
\* skipped) and the stage main is in has none yet; after a stage raised no later
\* stage has one.
C5_StagesInOrder ==
    \A i \in 1..Len(Stages) :
        /\ outcome[Stages[i]] # "none" =>
              \A j \in 1..(i - 1) : outcome[Stages[j]] \in {"ran", "skipped"}
        /\ pc = Stages[i] =>
              /\ \A j \in 1..(i - 1) : outcome[Stages[j]] \in {"ran", "skipped"}
              /\ \A j \in i..Len(Stages) : outcome[Stages[j]] = "none"
        /\ (pc = "failed" /\ outcome[Stages[i]] = "failed") =>
              \A j \in (i + 1)..Len(Stages) : outcome[Stages[j]] = "none"

\* C5 witness: a run in which the four stages ran, in order, returned.
C5_Witness == pc = "done" /\ \A st \in StageSet : outcome[st] = "ran"

RequiredIds(stage) == IF stage = "prayers" THEN PRAYERS_IDS ELSE VARIABLE_GEMINI_IDS

\* C6: InjectPrayers and Enrich are skipped only when every required id is in
\* today's manifest with non-blank text.
C6_SkippedOnlyWithText ==
    \A stage \in {"prayers", "gemini"} :
        outcome[stage] = "skipped" =>
            \A id \in RequiredIds(stage) :
                /\ id \in IdsOf(files[today][1].sections)
                /\ strip(DictGet(files[today][1].sections, id).text) # ""

\* C7: a run that started with the four readiness predicates satisfied calls neither
\* the fetch nor the text-generation nor the synthesis collaborator, writes no cache
\* artifact and raises nothing.
C7_SatisfiedRunDoesNoWork == satisfied => (calls = NoCalls /\ pc # "failed")

\* C7 witness: such a run returned.
C7_Witness == pc = "done" /\ satisfied /\ run >= 2

\* C8: when ensure_tts evaluates its predicate, the persisted manifest holds no audio
\* reference whose path names a missing file, and those it had are null; when
\* ensure_tts has returned (and storage is as the run left it), each of these
\* sections has an audio reference with an existing path.
C8_ReconciledThenRegenerated ==
    /\ pc = "tts_check" =>
          /\ DanglingIds(files[today][1], daily) = {}
          /\ \A i \in 1..Len(files[today][1].sections) :
                files[today][1].sections[i].id \in dangling =>
                    ~HasAudio(files[today][1].sections[i])
    /\ (pc = "done" /\ ~tampered) =>
          \A i \in 1..Len(files[today][1].sections) :
              LET s == files[today][1].sections[i]
              IN s.id \in dangling => HasAudio(s) /\ Exists(daily, s.audio[1].path)

\* C8 witness: ensure_tts returned after it had cleared a reference.
C8_Witness == outcome["tts"] = "ran" /\ dangling # {} /\ pc = "done"

\* C9: when the gospel cannot be extracted the run ends with that error, no manifest
\* file exists for the date and no later stage was attempted.
C9_NoGospelAborts ==
    (pc = "failed" /\ error = "gospel") =>
        /\ outcome["dominicos"] = "failed"
        /\ files[today] = << >>
        /\ \A st \in StageSet \ {"dominicos"} : outcome[st] = "none"
        /\ calls.gemini = 0 /\ calls.tts = 0 /\ calls.cache = 0

\* C9 witness: a run ended because the gospel could not be extracted.
C9_Witness == pc = "failed" /\ error = "gospel"

\* The waits the claim lists.
ClaimedWaits == << 2, 4, 8, 16, 30, 30 >>

\* C10: the waits of a call are 2, 4, 8, 16, 30, 30 in this order, as many as
\* attempts have failed transiently, one for each.
C10_BackoffWaits ==
    retry.status # "idle" =>
        /\ Len(retry.waits) <= Len(ClaimedWaits)
        /\ \A i \in 1..Len(retry.waits) : retry.waits[i] = ClaimedWaits[i]
        /\ retry.status = "calling" => Len(retry.waits) = retry.attempt - 1
        /\ retry.status = "exhausted" => Len(retry.waits) = retry.max_retries

\* C10 witness: six attempts failed transiently and the waits were the six listed.
C10_Witness == retry.status = "exhausted" /\ retry.waits = ClaimedWaits

\* The classification the specification states: a rate-limit response, every 5xx
\* status, a timeout and a connection failure are transient; the rest is fatal.
StatedTransient(err) ==
    \/ err.kind = "HTTPError" /\ (err.status = 429 \/ err.status \in 500..599)
    \/ err.kind \in {"Timeout", "ConnectionError"}

RetryEnded == retry.status \in {"returned", "raised", "exhausted"}

\* C11: a call of gemini_tts_request_with_retry ends; it calls gemini_tts_request at
\* most max_retries times; when every attempt failed transiently it does not return
\* a payload but raises a RuntimeError that names the last error raised.
C11_TerminatesWithinMaxRetries ==
    /\ [](retry.status # "idle" =>
            /\ retry.requests <= retry.max_retries
            /\ Len(retry.waits) = retry.max_retries => retry.status \in {"calling", "exhausted"}
            /\ retry.status = "exhausted" =>
                  /\ retry.requests = retry.max_retries
                  /\ Len(retry.waits) = retry.max_retries
                  /\ retry.raised.kind = "RuntimeError"
                  /\ retry.carried = retry.err
                  /\ retry.max_retries >= 1 => retry.carried \in TtsErrors)
    /\ (retry.status = "calling" ~> RetryEnded)

\* C11 witness: six attempts failed transiently, the last with a timeout, and the
\* call raised naming that timeout.
C11_Witness ==
    /\ retry.status = "exhausted" /\ retry.requests = DEFAULT_MAX_RETRIES
    /\ retry.carried = NetError("Timeout")

\* C12: an error that is neither a rate-limit response nor a 5xx status nor a timeout
\* nor a connection failure is raised to the caller as it is, no wait follows it, and
\* the call does nothing after it.
C12_FatalPropagates ==
    /\ []((retry.status # "idle" /\ retry.err # NoError /\ ~StatedTransient(retry.err)) =>
            /\ retry.status = "raised"
            /\ retry.raised = retry.err
            /\ Len(retry.waits) = retry.requests - 1)
    /\ [][retry.status = "raised" => retry' = retry]_vars

\* C12 witness: the third request got a 403 after two transient failures.
C12_Witness ==
    /\ retry.status = "raised" /\ retry.raised = HttpError(403)
    /\ retry.requests = 3 /\ Len(retry.waits) = 2

\* C13: an error is retried exactly when it is a rate-limit response, a 5xx status,
\* a timeout or a connection failure.
C13_TransientIffRetried ==
    (retry.status # "idle" /\ retry.err # NoError) =>
        (StatedTransient(retry.err) <=> retry.status # "raised")

RECURSIVE SumSeq(_)
SumSeq(q) == IF q = << >> THEN 0 ELSE Head(q) + SumSeq(Tail(q))

\* The i-th backoff delay as the specification states it: the base delay doubled
\* i - 1 times, capped.
BackoffDelay(i) == Min(BASE_DELAY * 2 ^ (i - 1), MAX_DELAY)

RECURSIVE SumBackoff(_)
SumBackoff(k) == IF k = 0 THEN 0 ELSE BackoffDelay(k) + SumBackoff(k - 1)

\* C14: a call that returned the payload after k transient failures had k smaller
\* than max_retries, raised nothing, and waited in total the sum of the first k
\* backoff delays.
C14_SucceedsAfterTransient ==
    retry.status = "returned" =>
        /\ retry.raised = NoError
        /\ Len(retry.waits) = retry.requests - 1
        /\ Len(retry.waits) < retry.max_retries
        /\ SumSeq(retry.waits) = SumBackoff(Len(retry.waits))

\* C14 witness: the sixth request returned after five transient failures, the waits
\* adding up to 2 + 4 + 8 + 16 + 30.
C14_Witness ==
    /\ retry.status = "returned" /\ Len(retry.waits) = DEFAULT_MAX_RETRIES - 1
    /\ SumSeq(retry.waits) = 60

\* The loop of generate_tts_for_manifest stands before a section it will process.
AtSection ==
    /\ pc = "tts_gen"
    /\ mem[1].i <= Len(mem[1].manifest.sections)
    /\ ~TtsSkips(mem[1].manifest.sections[mem[1].i])

CurrentSection == mem[1].manifest.sections[mem[1].i]

\* The four inputs of the audio hash of a section under an environment.
HashInputs(e, sec) ==
    << sec.text_hash, e.model, VOICE_PROFILES(e, VOICE_BY_SECTION(sec.id)),
       e.style_profile_id >>

DifferInOne(a, b) == Cardinality({k \in 1..4 : a[k] # b[k]}) = 1

\* C16: when the loop processes a section whose canonical cache path names a file,
\* no synthesis call is made and the cache is left alone, and the file holds what
\* synthesis gives for the section now; otherwise one synthesis call is made and,
\* unless it raised, the file exists at that path afterwards.  A section or an
\* environment that differs in one of text_hash, model, voice_name and
\* style_profile_id has another canonical path.
C16_HitReusesMissSynthesizes ==
    [][AtSection =>
         LET sec == CurrentSection
             ref == AudioRef(env, sec, today, run)
         IN /\ Exists(cache, ref.cache_path) =>
                  /\ calls'.tts = calls.tts
                  /\ cache' = cache
                  /\ BytesAt(cache, ref.cache_path) =
                        gemini_tts_request(
                            add_closing_phrase(sec.id, << normalize_text(sec.text) >>),
                            ref.model, ref.voice_name)
            /\ ~Exists(cache, ref.cache_path) =>
                  /\ calls'.tts = calls.tts + 1
                  /\ pc' # "failed" => Exists(cache', ref.cache_path)
            /\ \A e \in Envs : \A j \in 1..Len(mem[1].manifest.sections) :
                  DifferInOne(HashInputs(e, mem[1].manifest.sections[j]),
                              HashInputs(env, sec)) =>
                      AudioRef(e, mem[1].manifest.sections[j], today, run).cache_path
                          # ref.cache_path
      ]_vars

\* C16 witness: in a second run, under another model, the gospel missed the cache
\* that holds its artifact of the first run, and was synthesized again.
C16_Witness ==
    /\ pc = "tts_gen" /\ run = 2 /\ env.model # DefaultEnv.model
    /\ calls.tts >= 1 /\ mem[1].reused_count = 0
    /\ \E f \in cache : f.path = AudioRef(DefaultEnv, BuiltManifest(today).sections[2],
                                          today, run).cache_path
    /\ \E f \in cache : f.path = AudioRef(env, BuiltManifest(today).sections[2],
                                          today, run).cache_path

\* C17: once the loop has processed a section, the by-date file of (date, section
\* id) exists and holds the bytes of the cache artifact the section's audio_hash
\* names.
C17_ByDateHoldsCacheBytes ==
    pc = "tts_gen" =>
        \A j \in 1..(mem[1].i - 1) :
            LET sec == mem[1].manifest.sections[j]
            IN ~TtsSkips(sec) =>
                  /\ Exists(daily, sec.audio[1].path)
                  /\ Exists(cache, sec.audio[1].cache_path)
                  /\ BytesAt(daily, sec.audio[1].path) = BytesAt(cache, sec.audio[1].cache_path)

\* C18: when the loop processes a section that carries an audio reference and whose
\* cache artifact exists, the reference it leaves equals the one it found in every
\* field but the pointers path and cache_path.
C18_HitKeepsReference ==
    [][(AtSection /\ HasAudio(CurrentSection)
          /\ Exists(cache, AudioRef(env, CurrentSection, today, run).cache_path)) =>
         LET old == CurrentSection.audio[1]
             new == mem'[1].manifest.sections[mem[1].i].audio[1]
         IN [new EXCEPT !.path = old.path, !.cache_path = old.cache_path] = old
      ]_vars

\* The id, text and text_hash of every section, in order.
StoredTexts(manifest) ==
    [i \in 1..Len(manifest.sections) |->
        [ id |-> manifest.sections[i].id, text |-> manifest.sections[i].text,
          text_hash |-> manifest.sections[i].text_hash ]]

\* C19: from the start of ensure_tts to its end no step changes the id, text or
\* text_hash of a section, neither in the manifest file nor in the manifest the loop
\* holds and writes back; the closing phrase is in the synthesized text only.
C19_StoredTextUntouched ==
    [][(pc \in {"tts", "tts_check", "tts_gen"}) =>
         (/\ StoredTexts(files'[today][1]) = StoredTexts(files[today][1])
          /\ Len(mem') > 0 => StoredTexts(mem'[1].manifest) = StoredTexts(files[today][1]))
      ]_vars

\* C19 witness: ensure_tts returned; the gospel's artifact was synthesized from the
\* text with the closing phrase, and the manifest written back holds the text
\* without it.
C19_Witness ==
    /\ pc = "done" /\ outcome["tts"] = "ran"
    /\ \E i \in 1..Len(files[today][1].sections) :
          LET sec == files[today][1].sections[i]
          IN /\ sec.id = "gospel" /\ sec.text = "go" /\ HasAudio(sec)
             /\ Exists(cache, sec.audio[1].cache_path)
             /\ BytesAt(cache, sec.audio[1].cache_path)[1] =
                   << "go", "\n", "\n" >> \o PalabraDelSenor

\* C15: two audio hashes are equal exactly when text_hash, model, voice_name and
\* style_profile_id are equal one by one.
C15_AudioHashEqualIffInputsEqual ==
    call.fn = "compute_audio_hash" => ((call.hash_a = call.hash_b) <=> (call.a = call.b))

\* The text ends with the phrase, compared without regard to case and to full stops
\* at the end of either: the text is some beginning, then the letters of the phrase
\* in any case, then full stops only.
EndsWithPhrase(text, phrase) ==
    \E n \in 0..Len(text) :
        /\ \A i \in (Len(text) - n + 1)..Len(text) : text[i] = "."
        /\ endswith(lower(SubSeq(text, 1, Len(text) - n)), rstrip(lower(phrase), {"."}))

\* C20: for a section id without closing phrase, and for a text that already ends
\* with the phrase of its section id, add_closing_phrase returns the text as it is;
\* otherwise it returns the text without trailing white space, a blank line and the
\* phrase; called on what it returned, it returns the same.
C20_ClosingPhraseOnce ==
    call.fn = "add_closing_phrase" =>
        LET phrase == CLOSING_PHRASE_BY_SECTION(call.sec_id)
        IN /\ phrase = << >> => call.result = call.text
           /\ (phrase # << >> /\ EndsWithPhrase(call.text, phrase)) => call.result = call.text
           /\ call.result # call.text =>
                 /\ call.result = rstrip(call.text, WhiteSpace) \o << "\n", "\n" >> \o phrase
                 /\ ~EndsWithPhrase(call.text, phrase)
           /\ call.again = call.result

\* C20 witness: the phrase was appended to a psalm text that ended with the phrase of
\* the gospel, and the second call left the result alone.
C20_Witness ==
    /\ call.fn = "add_closing_phrase" /\ call.sec_id = "psalm"
    /\ call.text = << "go" >> \o PalabraDelSenor
    /\ call.result = << "go" >> \o PalabraDelSenor \o << "\n", "\n" >> \o PalabraDeDios
    /\ call.again = call.result

\* The persisted manifest of the run's date is as the audio stage reconciled or left it.
AudioStageStarted ==
    \/ pc \in {"tts_check", "tts_gen"}
    \/ pc \in {"done", "failed"} /\ outcome["tts"] # "none" /\ ~tampered

\* The audio references of the persisted manifest of the run's date.
PersistedRefs ==
    { files[today][1].sections[i].audio[1] :
        i \in { j \in 1..Len(files[today][1].sections) :
                  HasAudio(files[today][1].sections[j]) } }

C27_AcceptsOnlyFourIds ==
    /\ outcome["gemini"] = "ran" =>
          /\ VARIABLE_GEMINI_IDS \subseteq IdsOf(gemini_reply)
          /\ ReplyValid(gemini_reply)
    /\ (pc = "failed" /\ error = "reply") => files[today] = startFile

\* The position of an id in ORDER.
OrderIndex(id) == CHOOSE i \in 1..Len(ORDER) : ORDER[i] = id

\* The ids of a section list, in the order of the list.
IdList(sections) == [i \in 1..Len(sections) |-> sections[i].id]

\* The sections whose id is in ORDER follow one another as their ids do in ORDER.
InCanonicalOrder(sections) ==
    \A i, j \in 1..Len(sections) :
        (i < j /\ sections[i].id \in OrderSet /\ sections[j].id \in OrderSet) =>
            OrderIndex(sections[i].id) < OrderIndex(sections[j].id)

NoBlankSecondReading(sections) ==
    \A i \in 1..Len(sections) :
        sections[i].id = "second_reading" => strip(sections[i].text) # ""

UpsertReturned ==
    /\ call.fn \in {"upsert_prayers_into_manifest", "enrich_manifest"}
    /\ (call.fn = "upsert_prayers_into_manifest" => ~call.raised)

\* C23: the section list an upsert returns has its canonical sections in the order of
\* ORDER and holds no second_reading of blank text, whatever the order of the sections
\* of the manifest and of the incoming sections.
C23_CanonicalOrder ==
    UpsertReturned =>
        /\ InCanonicalOrder(call.result.sections)
        /\ NoBlankSecondReading(call.result.sections)

\* C23 witness: enrich_manifest returned from a manifest whose gospel came before a
\* second_reading with text, with closing generated before welcome.
C23_Witness ==
    /\ call.fn = "enrich_manifest"
    /\ IdList(call.manifest.sections) = << "gospel", "second_reading" >>
    /\ strip(call.manifest.sections[2].text) # ""
    /\ IdList(call.generated) = << "closing", "welcome" >>
    /\ IdList(call.result.sections) = << "welcome", "second_reading", "gospel", "closing" >>

\* The sections an upsert was given to insert, in the shape of manifest sections.
IncomingSections ==
    IF call.fn = "enrich_manifest" THEN GeneratedSections(call.generated)
    ELSE TemplateSections(required_ids, call.templates)

\* C24: the section list an upsert returns holds every id outside ORDER that the
\* manifest or the incoming sections held, after all canonical sections and in the
\* order in which the ids were first inserted; this for upsert_prayers_into_manifest
\* and for enrich_manifest alike.
C24_ExtrasKept ==
    UpsertReturned =>
        LET res == call.result.sections
            inserted == DictKeys(call.manifest.sections \o IncomingSections)
        IN /\ SelectSeq(IdList(res), NotInOrder) = SelectSeq(inserted, NotInOrder)
           /\ \A i, j \in 1..Len(res) :
                 (res[i].id \notin OrderSet /\ res[j].id \in OrderSet) => j < i

UniqueIds(sections) ==
    \A i, j \in 1..Len(sections) : sections[i].id = sections[j].id => i = j

HasDuplicateId(sections) == ~UniqueIds(sections)

\* C25: no id occurs twice in the section list build_manifest returns, nor in the
\* list an upsert returns, nor in what the same upsert and then the other upsert make
\* of that list, whether or not ids were repeated in the manifest or in the incoming
\* sections; and no id occurs twice in a manifest file or in the manifest the audio
\* stage holds in memory.
C25_IdsUnique ==
    /\ call.fn = "build_manifest" => UniqueIds(call.result.sections)
    /\ UpsertReturned =>
          /\ UniqueIds(call.result.sections)
          /\ UniqueIds(call.again.sections)
          /\ UniqueIds(call.other.sections)
    /\ \A d \in Days : files[d] # << >> => UniqueIds(files[d][1].sections)
    /\ mem # << >> => UniqueIds(mem[1].manifest.sections)

\* C25 witness: upsert_prayers_into_manifest returned from a manifest that held an id
\* twice.
C25_Witness ==
    /\ call.fn = "upsert_prayers_into_manifest" /\ ~call.raised
    /\ HasDuplicateId(call.manifest.sections)
    /\ Len(call.result.sections) > 3

\* C26: an upsert applied to its own result with the same incoming sections returns
\* a manifest equal to that result.
C26_UpsertIdempotent == UpsertReturned => call.again = call.result

\* C26 witness: enrich_manifest was applied twice where it had a section to replace,
\* one to drop and one to add.
C26_Witness ==
    /\ call.fn = "enrich_manifest"
    /\ call.again = call.result
    /\ call.result.sections # call.manifest.sections
    /\ Len(call.result.sections) >= 2
    /\ HasDuplicateId(call.generated)

\* C28: upsert_prayers_into_manifest raises exactly when confiteor, creed or
\* lords_prayer is missing from the templates, and then the manifest passed in is as
\* it was: same sections, same metadata.
C28_MissingTemplateRaises ==
    call.fn = "upsert_prayers_into_manifest" =>
        /\ call.raised <=> (\E id \in PRAYERS_IDS : id \notin DOMAIN call.templates)
        /\ call.raised => call.after = call.manifest

\* C28 witness: the call raised for a templates file that lacks only the creed, on a
\* manifest with sections.
C28_Witness ==
    /\ call.fn = "upsert_prayers_into_manifest" /\ call.raised
    /\ DOMAIN call.templates = PRAYERS_IDS \ {"creed"}
    /\ Len(call.manifest.sections) >= 2
    /\ call.after = call.manifest

\* The positions (from 1) at which a marker occurs in a text, letter case ignored.
Occurrences(text, marker) == { i \in 1..Len(text) : lower_char(text[i]) = marker }

EndMarkers == {EVANGELIO_DE_HOY_EN_VIDEO, REFLEXION_DEL_EVANGELIO_DE_HOY}

\* C29: extract_sections raises whenever the gospel slice it is left with is empty,
\* what it returns has a gospel that is not empty, and when it raised no manifest was
\* built or saved.
C29_EmptyGospelRaises ==
    call.fn = "extract_sections" =>
        /\ call.out.gospel = << >> => call.raised
        /\ ~call.raised => call.returned # << >> /\ call.returned[1].gospel # << >>
        /\ call.raised => call.returned = << >> /\ call.saved = << >>

\* C29 witness: a page without reading marker raised although it has the header: an
\* end marker comes before the header, and the slice from the header is empty.
C29_Witness ==
    /\ call.fn = "extract_sections" /\ call.raised /\ call.saved = << >>
    /\ Occurrences(call.text, EVANGELIO_DEL_DIA) # {}
    /\ Occurrences(call.text, LECTURA_DEL_SANTO_EVANGELIO) = {}

\* C30 as stated: a page without the reading marker on which the header occurs fewer
\* than two times raises, and no manifest is saved.
C30_NoRepeatedHeaderRaises ==
    ( /\ call.fn = "extract_sections"
      /\ Occurrences(call.text, LECTURA_DEL_SANTO_EVANGELIO) = {}
      /\ Cardinality(Occurrences(call.text, EVANGELIO_DEL_DIA)) < 2 ) =>
        call.raised /\ call.saved = << >>

\* C30: a page without the reading marker and without the header raises, and no
\* manifest is saved; when the header occurs once, the gospel is taken from that
\* occurrence, and the page raises exactly when an end marker comes before it.
C30_NoHeaderRaises ==
    ( /\ call.fn = "extract_sections"
      /\ Occurrences(call.text, LECTURA_DEL_SANTO_EVANGELIO) = {} ) =>
        LET headers == Occurrences(call.text, EVANGELIO_DEL_DIA)
        IN /\ headers = {} => call.raised /\ call.saved = << >>
           /\ Cardinality(headers) = 1 =>
                 /\ call.raised <=>
                       \E mk \in EndMarkers : \E i \in Occurrences(call.text, mk) :
                           \A h \in headers : i < h
                 /\ call.raised => call.saved = << >>
                 /\ ~call.raised => lower_char(call.returned[1].gospel[1]) = EVANGELIO_DEL_DIA

\* C30 witness: a page with other markers, without reading marker and without header,
\* raised.
C30_Witness ==
    /\ call.fn = "extract_sections" /\ call.raised /\ call.saved = << >>
    /\ Occurrences(call.text, LECTURA_DEL_SANTO_EVANGELIO) = {}
    /\ Occurrences(call.text, EVANGELIO_DEL_DIA) = {}
    /\ Occurrences(call.text, SALMO_DE_HOY) # {}
    /\ Occurrences(call.text, EVANGELIO_DE_HOY_EN_VIDEO) # {}

\* C22: no process takes as a cache hit a file wave.open has created and that was not
\* written completely, whether another process is writing it or a killed process
\* left it; and no by-date file holds the bytes of such a file.
C22_NoPartialHit ==
    /\ \A w \in Workers : mem[w].at # "idle" => mem[w].partial = {}
    /\ \A f \in daily : f.bytes # PartialWav

\* The position (from 1) of the header that marks the gospel block: the second
\* occurrence when there are two or more, else the only one.
HeaderBlock(t) ==
    LET H == Occurrences(t, EVANGELIO_DEL_DIA)
    IN IF Cardinality(H) >= 2 THEN Least(H \ {Least(H)}) ELSE Least(H)

\* The text from position start up to the first end marker after it, or to the end.
TextUpToEndMarker(t, start) ==
    LET E == { e \in 1..Len(t) : e > start /\ lower_char(t[e]) \in EndMarkers }
    IN str_strip(SubSeq(t, start, IF E = {} THEN Len(t) ELSE Least(E) - 1))

\* What extract_sections does with the header, given what it does without one.
HeaderTieBreak(withoutHeader) ==
    call.fn = "extract_sections" =>
        LET t == DownloadText_normalize_text(call.text)
            H == Occurrences(t, EVANGELIO_DEL_DIA)
            R == Occurrences(t, LECTURA_DEL_SANTO_EVANGELIO)
        IN IF H = {} THEN withoutHeader
           ELSE LET h == HeaderBlock(t)
                    Rh == { r \in R : r >= h }
                IN IF Rh # {}
                   THEN /\ ~call.raised
                        /\ call.returned[1].gospel = TextUpToEndMarker(t, Least(Rh))
                   ELSE /\ call.raised <=>
                              \E e \in 1..(h - 1) : lower_char(t[e]) \in EndMarkers
                        /\ ~call.raised =>
                              call.returned[1].gospel = TextUpToEndMarker(t, h)

\* C31: with two or more headers the second marks the gospel block, with one header
\* that one does: the gospel is the text from the first reading marker at or after
\* the block's header, or from that header when there is none, up to the end marker.
\* Without any header the gospel is the text from the first reading marker, and the
\* extraction fails when there is no reading marker either.
C31_HeaderTieBreak ==
    HeaderTieBreak(
        LET t == DownloadText_normalize_text(call.text)
            R == Occurrences(t, LECTURA_DEL_SANTO_EVANGELIO)
        IN /\ call.raised <=> R = {}
           /\ ~call.raised => call.returned[1].gospel = TextUpToEndMarker(t, Least(R)))

\* C31 as stated: the same for one header and more, and without any header the
\* extraction fails whatever else the text contains.
C31_NoHeaderFails == HeaderTieBreak(call.raised)

\* C31 witness: a page with three headers, a reading marker after the first and none
\* after the second: the gospel starts at the second header and holds the third.
C31_Witness ==
    /\ call.fn = "extract_sections" /\ ~call.raised
    /\ Cardinality(Occurrences(call.text, EVANGELIO_DEL_DIA)) = 3
    /\ Cardinality(Occurrences(call.text, LECTURA_DEL_SANTO_EVANGELIO)) = 1
    /\ lower_char(call.returned[1].gospel[1]) = EVANGELIO_DEL_DIA
    /\ Cardinality(Occurrences(call.returned[1].gospel, EVANGELIO_DEL_DIA)) = 2

Markers ==
    { PRIMERA_LECTURA, SALMO_DE_HOY, SEGUNDA_LECTURA, EVANGELIO_DEL_DIA,
      LECTURA_DEL_SANTO_EVANGELIO, EVANGELIO_DE_HOY_EN_VIDEO, REFLEXION_DEL_EVANGELIO_DE_HOY }

IsMarker(c) == c \in Markers

\* The markers of a text, in the order in which they occur.
MarkersOf(text) == SelectSeq(lower(text), IsMarker)

UsualOrder ==
    << PRIMERA_LECTURA, SALMO_DE_HOY, SEGUNDA_LECTURA, EVANGELIO_DEL_DIA, EVANGELIO_DEL_DIA,
       LECTURA_DEL_SANTO_EVANGELIO, EVANGELIO_DE_HOY_EN_VIDEO >>

InUsualOrder(text) ==
    /\ Len(MarkersOf(text)) >= Len(UsualOrder)
    /\ SubSeq(MarkersOf(text), 1, Len(UsualOrder)) = UsualOrder

\* C32: on a page whose markers are, in this order, first reading, psalm, second
\* reading, header, header, opening phrase and end marker, extract_sections returns
\* four sections that are not empty; the gospel starts with the opening phrase, holds
\* no end marker, and is the text from the opening phrase up to the end marker.
C32_UsualPageFourSections ==
    (call.fn = "extract_sections" /\ InUsualOrder(call.text)) =>
        /\ ~call.raised
        /\ \A id \in SliceIds : call.returned[1][id] # << >>
        /\ LET gospel == call.returned[1].gospel
               t == DownloadText_normalize_text(call.text)
               r == Least(Occurrences(t, LECTURA_DEL_SANTO_EVANGELIO))
               e == Least(Occurrences(t, EVANGELIO_DE_HOY_EN_VIDEO))
           IN /\ lower_char(gospel[1]) = LECTURA_DEL_SANTO_EVANGELIO
              /\ \A i \in 1..Len(gospel) : lower_char(gospel[i]) \notin EndMarkers
              /\ gospel = str_strip(SubSeq(t, r, e - 1))

\* C32 witness: such a page, with the second end marker after the first, gave four
\* sections and a gospel of the opening phrase and its text.
C32_Witness ==
    /\ call.fn = "extract_sections" /\ InUsualOrder(call.text) /\ ~call.raised
    /\ Occurrences(call.text, REFLEXION_DEL_EVANGELIO_DE_HOY) # {}
    /\ call.returned[1].gospel = << "Lectura del santo evangelio", " ", "tx" >>
    /\ call.returned[1].first_reading = << "tx" >>

\* C33: a section whose start marker is on the page gets the text from that marker to
\* the next marker that follows it in the liturgical order, or to the end of the
\* text: on the pages of the model, where text follows every marker, first_reading,
\* psalm and second_reading are not empty when their markers are there.
C33_SlicesToNextMarker ==
    call.fn = "extract_sections" =>
        /\ Occurrences(call.text, PRIMERA_LECTURA) # {} => call.out.first_reading # << >>
        /\ Occurrences(call.text, SALMO_DE_HOY) # {} => call.out.psalm # << >>
        /\ Occurrences(call.text, SEGUNDA_LECTURA) # {} => call.out.second_reading # << >>

SliceOrder == << "first_reading", "psalm", "second_reading", "gospel" >>

\* C34: the sections of the manifest build_manifest returns are, in the order
\* first_reading, psalm, second_reading, gospel, the gospel and the slices that are not
\* empty, each with the text of its slice, its text_hash and a null audio reference;
\* an empty slice gives no section, and the manifest has the date it was built for.
C34_BuildKeepsNonEmpty ==
    call.fn = "build_manifest" =>
        LET kept == SelectSeq(SliceOrder,
                              LAMBDA id : id = "gospel" \/ call.secs[id] # "")
            sections == call.result.sections
        IN /\ IdList(sections) = kept
           /\ \A i \in 1..Len(sections) :
                 /\ sections[i].text = call.secs[sections[i].id]
                 /\ sections[i].type = ReadingType(sections[i].id)
                 /\ sections[i].text_hash =
                        sha256_hex(<< sections[i].id, sections[i].type, sections[i].text >>)
                 /\ sections[i].audio = << >>
           /\ call.result.date = 1

\* C34 witness: a psalm and a gospel were extracted, no first and no second reading.
C34_Witness ==
    /\ call.fn = "build_manifest"
    /\ call.secs["first_reading"] = "" /\ call.secs["second_reading"] = ""
    /\ call.secs["psalm"] # "" /\ call.secs["gospel"] # ""
    /\ IdList(call.result.sections) = << "psalm", "gospel" >>

\* A text is normalized: no carriage return, no tab, no two spaces in a row, no three
\* newlines in a row, no white space at its ends.
Normalized(s) ==
    /\ \A i \in 1..Len(s) : s[i] \notin {"\r", "\t"}
    /\ \A i \in 1..(Len(s) - 1) : ~(s[i] = " " /\ s[i + 1] = " ")
    /\ \A i \in 1..(Len(s) - 2) : ~(s[i] = "\n" /\ s[i + 1] = "\n" /\ s[i + 2] = "\n")
    /\ s # << >> => s[1] \notin WhiteSpace /\ s[Len(s)] \notin WhiteSpace

\* The modules whose producers store the text normalize_text returns.
Producers == {"DownloadText", "add_prayers_to_manifest", "enrich_manifest_with_gemini"}

\* C35: the text a producer stores, which is what the normalize_text of its module
\* returns, is normalized.
C35_StoredTextNormalized ==
    (call.fn = "normalize_text" /\ call.module \in Producers) => Normalized(call.result)

\* C36: normalize_text applied to what it returned returns the same text; the
\* text_hash of a section computed from a text equals the one computed from its
\* normalization; and the text_hash of two texts is the same exactly when their
\* normalizations are equal.
C36_HashStableUnderNormalization ==
    call.fn = "normalize_text" =>
        /\ call.again = call.result
        /\ call.hash_again = call.hash
        /\ call.hash = call.hash_other <=> call.result = call.result_other

\* C36 witness: a text with a tab and four newlines between its words and white space
\* around it was normalized, and has the text_hash of the text it was compared with.
C36_Witness ==
    /\ call.fn = "normalize_text" /\ call.module = "DownloadText"
    /\ call.text = << " ", "a", "\t", "\n", "\n", "b", "\n" >>
    /\ call.result = << "a", " ", "\n", "\n", "b" >>
    /\ call.again = call.result
    /\ call.other = << "a", " ", "b" >>
    /\ call.hash # call.hash_other

\* The text_hash of a section is the digest of its id, its type and its stored text.
HashOfStoredText(sec) == sec.text_hash = sha256_hex(<< sec.id, sec.type, sec.text >>)

\* The section is the reading without text_hash of the file that came from outside
\* the pipeline, as it was: no producer wrote it.
FromOutside(day, sec) == sec = HashlessManifest(day).sections[1]

\* The audio hash of a section's audio block is the one of the digest of the
\* section's id, type and stored text under the block's model, voice and profile.
AudioKeyedOnStoredText(sec) ==
    HasAudio(sec) =>
        sec.audio[1].audio_hash =
            compute_audio_hash(<< sha256_hex(<< sec.id, sec.type, sec.text >>) >>,
                               << sec.audio[1].model >>, << sec.audio[1].voice_name >>,
                               << sec.audio[1].style_profile_id >>)

ManifestsAtHand ==
    { files[d][1] : d \in {e \in Days : files[e] # << >>} }
    \cup (IF mem = << >> THEN {} ELSE {mem[1].manifest})

\* C37: in every manifest file and in the manifest the audio stage holds, after any
\* stages of any runs, the text_hash of each section a producer wrote is the digest of
\* its id, type and stored text, and the audio hash of each audio block is the one of
\* that digest.
C37_TextHashOfStoredText ==
    \A m \in ManifestsAtHand : \A i \in 1..Len(m.sections) :
        /\ HashOfStoredText(m.sections[i]) \/ FromOutside(m.date, m.sections[i])
        /\ AudioKeyedOnStoredText(m.sections[i])

\* C37 witness: a run has ended and today's manifest holds a reading, a prayer of a
\* template of white space only, a generated section, and a section with audio.
C37_Witness ==
    /\ pc = "done" /\ files[today] # << >>
    /\ LET secs == files[today][1].sections
       IN /\ \E i \in 1..Len(secs) : secs[i].id = "gospel" /\ HasAudio(secs[i])
          /\ \E i \in 1..Len(secs) :
                secs[i].id = "creed" /\ secs[i].text = ""
                /\ secs[i].text_hash = sha256_hex(<< "creed", "prayer", "" >>)
          /\ \E i \in 1..Len(secs) : secs[i].id = "homily" /\ HashOfStoredText(secs[i])

\* The section at a place of a list is the last of its id in the list.
LastOfItsId(sections, i) == \A j \in (i + 1)..Len(sections) : sections[j].id # sections[i].id

BlankSecondReading(sec) == sec.id = "second_reading" /\ strip(sec.text) = ""

\* Every section of the manifest handed to the upsert that is among those given, whose
\* id is in ORDER and is not an incoming id, is in the list returned as it was.
CarriedOver(given) ==
    LET old == call.manifest.sections
        res == call.result.sections
    IN \A i \in given :
          (old[i].id \in OrderSet /\ old[i].id \notin IdsOf(IncomingSections)) =>
              \E j \in 1..Len(res) : res[j] = old[i]

\* Every section of the list returned whose id is an incoming id is the last incoming
\* section of that id, with a null audio reference.
ReplacedAreFresh ==
    LET res == call.result.sections
    IN \A j \in 1..Len(res) :
          res[j].id \in IdsOf(IncomingSections) =>
              res[j] = DictGet(IncomingSections, res[j].id) /\ res[j].audio = << >>

\* C38 as stated: an upsert carries over, as it was, every section of the manifest
\* whose id is in ORDER and is not an incoming id, and every replaced section has a
\* null audio reference.
C38_UpsertFrameAll ==
    UpsertReturned =>
        CarriedOver(1..Len(call.manifest.sections)) /\ ReplacedAreFresh

\* C38: an upsert carries over, as it was, every section of the manifest whose id is in
\* ORDER and is not an incoming id, provided it is the last of its id in the manifest
\* and is not a second_reading of blank text; and every section of the result with an
\* incoming id is the incoming one, its audio reference null, also when the section it
\* replaced had the same text.
C38_UpsertFrame ==
    UpsertReturned =>
        /\ CarriedOver({ i \in 1..Len(call.manifest.sections) :
                           /\ LastOfItsId(call.manifest.sections, i)
                           /\ ~BlankSecondReading(call.manifest.sections[i]) })
        /\ ReplacedAreFresh

\* C38 witness: enrich_manifest was given a welcome for a manifest that held a welcome
\* of the same text with audio and a creed with audio; the welcome returned has the
\* same text and no audio, the creed returned has its audio.
C38_Witness ==
    /\ call.fn = "enrich_manifest"
    /\ call.generated = << Speech("welcome", "w") >>
    /\ \E i \in 1..Len(call.manifest.sections) :
          LET sec == call.manifest.sections[i]
          IN sec.id = "welcome" /\ sec.text = "w" /\ HasAudio(sec)
    /\ \E i \in 1..Len(call.manifest.sections) :
          LET sec == call.manifest.sections[i]
          IN /\ sec.id = "creed" /\ HasAudio(sec)
             /\ \E j \in 1..Len(call.result.sections) : call.result.sections[j] = sec
    /\ \E j \in 1..Len(call.result.sections) :
          LET sec == call.result.sections[j]
          IN sec.id = "welcome" /\ sec.text = "w" /\ ~HasAudio(sec)

\* C39: a step of ensure_dominicos_manifest taken when the manifest file of the run's
\* date exists makes no fetch and leaves every manifest file as it is; and no step of
\* any stage removes a manifest file or changes its date.
C39_ExistingManifestSkipsExtract ==
    [][/\ (pc = "dominicos" /\ files[today] # << >>) =>
              (calls'.fetch = calls.fetch /\ files' = files)
       /\ \A d \in Days :
              files[d] # << >> =>
                  files'[d] # << >> /\ files'[d][1].date = files[d][1].date]_vars

\* C39 witness: a run found the manifest file of its date, which lacked the prayers
\* and a text_hash, skipped the extraction without a fetch, and ended after the later
\* stages had written the file, whose date is still the run's date.
C39_Witness ==
    /\ pc = "done" /\ outcome["dominicos"] = "skipped" /\ calls.fetch = 0
    /\ outcome["prayers"] = "ran" /\ outcome["tts"] = "ran"
    /\ files[today] # << >> /\ files[today][1].date = today
    /\ \E i \in 1..Len(files[today][1].sections) :
          FromOutside(today, files[today][1].sections[i])

=============================================================================
